---- MODULE Spec2Model ----
(***************************************************************************)
(* A model of cghelper: the template compiler (str_to_code), the Code      *)
(* composition operations, the renderer (State::run, State::flush,         *)
(* do_display) and the colour assignment of SourceLoc::style.              *)
(*                                                                         *)
(* Text is a sequence of one-character strings.  Option<T> is a sequence   *)
(* of length at most one: <<>> is None and <<v>> is Some(v).  Indices of   *)
(* operation vectors are 0-based as in the source; position i of the       *)
(* source is element i + 1 of the TLA+ sequence.                           *)
(***************************************************************************)
EXTENDS Integers, Sequences, FiniteSets, TLC

(***************************************************************************)
(* Characters and the str methods the source uses.                         *)
(***************************************************************************)

\* A character is a string.  Every character the model uses is one ASCII
\* character, which UTF-8 encodes in one byte, but for EM_SPACE: it stands
\* for the character U+2003, which is whitespace and takes three bytes.
EM_SPACE == "U+2003"

\* char::len_utf8
len_utf8(c) == IF c = EM_SPACE THEN 3 ELSE 1

\* The number of bytes of the first k characters of s.
RECURSIVE bytes_upto(_, _)
bytes_upto(s, k) == IF k = 0 THEN 0 ELSE len_utf8(s[k]) + bytes_upto(s, k - 1)

\* Every character of s takes one byte: byte indices are character indices.
OneByteChars(s) == \A i \in 1..Len(s) : len_utf8(s[i]) = 1

\* str::len: the number of bytes of s
str_len(s) == IF OneByteChars(s) THEN Len(s) ELSE bytes_upto(s, Len(s))

\* The search of char_boundary: k characters of b bytes have been passed.
RECURSIVE boundary(_, _, _, _)
boundary(s, k, b, n) ==
    IF b = n THEN <<k>>
    ELSE IF b > n \/ k = Len(s) THEN <<>>
    ELSE boundary(s, k + 1, b + len_utf8(s[k + 1]), n)

\* The char boundary n of s, as an Option: the number of characters of s in
\* front of byte n, None when n is inside a character or behind the end.
char_boundary(s, n) ==
    IF OneByteChars(s) THEN (IF n <= Len(s) THEN <<n>> ELSE <<>>)
    ELSE boundary(s, 0, 0, n)

\* str::is_char_boundary(n): the byte n is the first of a character of s, or
\* the end of s.
is_char_boundary(s, n) == char_boundary(s, n) # <<>>

\* char::is_whitespace, on the characters the model uses.
IsWhitespace(c) == c \in {" ", "\t", "\n", "\r", EM_SPACE}

\* s.chars().all(char::is_whitespace)
AllWhitespace(s) == \A i \in 1..Len(s) : IsWhitespace(s[i])

\* Index (1-based) of the first character of s satisfying the set cs, or 0.
FindIn(s, cs) ==
    IF \E i \in 1..Len(s) : s[i] \in cs
    THEN CHOOSE i \in 1..Len(s) : s[i] \in cs /\ \A j \in 1..(i - 1) : s[j] \notin cs
    ELSE 0

\* Index (1-based) of the first character of s outside the set cs, or 0.
FindNotIn(s, cs) ==
    IF \E i \in 1..Len(s) : s[i] \notin cs
    THEN CHOOSE i \in 1..Len(s) : s[i] \notin cs /\ \A j \in 1..(i - 1) : s[j] \in cs
    ELSE 0

\* str::trim_left
trim_left(s) ==
    LET i == FindNotIn(s, {" ", "\t", "\n", "\r", EM_SPACE})
    IN  IF i = 0 THEN <<>> ELSE SubSeq(s, i, Len(s))

\* str::trim_right
trim_right(s) ==
    IF AllWhitespace(s) THEN <<>>
    ELSE LET i == CHOOSE k \in 1..Len(s) :
                      /\ ~IsWhitespace(s[k])
                      /\ \A j \in (k + 1)..Len(s) : IsWhitespace(s[j])
         IN  SubSeq(s, 1, i)

\* str::starts_with(&[chars][..]) and str::ends_with(&[chars][..])
starts_with(s, cs) == Len(s) > 0 /\ s[1] \in cs
ends_with(s, cs) == Len(s) > 0 /\ s[Len(s)] \in cs

\* str::split('\n'): the segments between the newlines; always at least one.
RECURSIVE split_nl(_)
split_nl(s) ==
    LET i == FindIn(s, {"\n"})
    IN  IF i = 0 THEN <<s>>
        ELSE <<SubSeq(s, 1, i - 1)>> \o split_nl(SubSeq(s, i + 1, Len(s)))

\* str::lines(): the segments that end with a line break, without the "\n"
\* and without a "\r" in front of it, then the rest of the text when it is not
\* empty.  A "\r" that no "\n" follows stays in its line.
lines(s) ==
    LET segs == split_nl(s)
        n == Len(segs)
        strip(l) == IF ends_with(l, {"\r"}) THEN SubSeq(l, 1, Len(l) - 1) ELSE l
        ended == [i \in 1..(n - 1) |-> strip(segs[i])]
    IN  IF segs[n] = <<>> THEN ended ELSE Append(ended, segs[n])

\* n spaces: `for _ in 0..n { curr.push(' ') }`
Spaces(n) == [i \in 1..n |-> " "]

\* Concatenation of a sequence of texts.
RECURSIVE Concat(_)
Concat(ss) == IF ss = <<>> THEN <<>> ELSE Head(ss) \o Concat(Tail(ss))

(***************************************************************************)
(* Op and Code (lib.rs).                                                   *)
(***************************************************************************)

Nl == [tag |-> "Nl"]
Lit(seg) == [tag |-> "Lit", seg |-> seg]
Blob(seg) == [tag |-> "Blob", seg |-> seg]
Inner(ops) == [tag |-> "Inner", ops |-> ops]
InnerRef(back) == [tag |-> "InnerRef", back |-> back]

\* Code::new
Code_new == <<>>

(***************************************************************************)
(* The template compiler (lib.rs).                                         *)
(***************************************************************************)

\* The usize values of min_indent, written by their decimal digits: the
\* start value usize::max_value() of a 64-bit build is beyond the integers a
\* model checker computes with.
usize_MAX == <<1, 8, 4, 4, 6, 7, 4, 4, 0, 7, 3, 7, 0, 9, 5, 5, 1, 6, 1, 5>>

\* The usize of a number the model holds as an integer.
RECURSIVE usize_of(_)
usize_of(n) == IF n < 10 THEN <<n>> ELSE Append(usize_of(n \div 10), n % 10)

\* The integer of a usize; used when the usize is at most a line length.
RECURSIVE usize_int(_)
usize_int(d) ==
    IF Len(d) = 1 THEN d[1]
    ELSE 10 * usize_int(SubSeq(d, 1, Len(d) - 1)) + d[Len(d)]

\* a < b on usize values.
usize_lt(a, b) ==
    \/ Len(a) < Len(b)
    \/ /\ Len(a) = Len(b)
       /\ \E i \in 1..Len(a) : a[i] < b[i] /\ \A j \in 1..(i - 1) : a[j] = b[j]

\* min_indent: the lowest indent of any non-blank line.
RECURSIVE min_indent_loop(_, _, _)
min_indent_loop(ls, i, acc) ==
    IF i > Len(ls) THEN acc
    ELSE LET line == ls[i]
             trimmed == trim_left(line)
         IN  IF trimmed = <<>> THEN min_indent_loop(ls, i + 1, acc)
             ELSE min_indent_loop(ls, i + 1,
                                  IF usize_lt(usize_of(str_len(line) - str_len(trimmed)), acc)
                                  THEN usize_of(str_len(line) - str_len(trimmed))
                                  ELSE acc)

min_indent(s) == min_indent_loop(lines(s), 1, usize_MAX)

IdentChars ==
    {"a", "b", "c", "d", "e", "f", "g", "h", "i", "j", "k", "l", "m",
     "n", "o", "p", "q", "r", "s", "t", "u", "v", "w", "x", "y", "z",
     "A", "B", "C", "D", "E", "F", "G", "H", "I", "J", "K", "L", "M",
     "N", "O", "P", "Q", "R", "S", "T", "U", "V", "W", "X", "Y", "Z",
     "0", "1", "2", "3", "4", "5", "6", "7", "8", "9", "_"}

\* subst_point: None, or Some((text before '$', name, rest)).
subst_point(s) ==
    LET x == FindIn(s, {"$"})
    IN  IF x = 0 THEN <<>>
        ELSE LET start == SubSeq(s, 1, x - 1)
                 t == SubSeq(s, x + 1, Len(s))
                 y == FindNotIn(t, IdentChars)
                 n == IF y = 0 THEN Len(t) ELSE y - 1
             IN  <<[b |-> start, name |-> SubSeq(t, 1, n), r |-> SubSeq(t, n + 1, Len(t))]>>

\* BuildArg::new: the argument already converted to Code.
BuildArg_new(name, code) == [name |-> name, code |-> <<code>>, index |-> 0]

\* The mutant of get_by_name: a name without argument gets the first argument.
get_by_name_or_first(name, args) ==
    IF \E i \in 1..Len(args) : args[i].name = name
    THEN CHOOSE i \in 1..Len(args) :
             args[i].name = name /\ \A j \in 1..(i - 1) : args[j].name # name
    ELSE 1

\* get_by_name: the position (1-based) of the first argument called name;
\* 0 stands for the panic "No argument provided for substitution".
get_by_name(name, args) ==
    IF \E i \in 1..Len(args) : args[i].name = name
    THEN CHOOSE i \in 1..Len(args) :
             args[i].name = name /\ \A j \in 1..(i - 1) : args[j].name # name
    ELSE 0

\* The mutant of subst_arg: the Code of the argument is cloned, not taken, so
\* every reference gets an Inner.
subst_arg_clone(ops, args, a) ==
    [ops |-> Append(ops, Inner(args[a].code[1])), args |-> args]

\* The mutant of subst_arg: the InnerRef holds the index of the Inner, not the
\* offset back to it.
subst_arg_absolute(ops, args, a) ==
    IF args[a].code # <<>>
    THEN [ops |-> Append(ops, Inner(args[a].code[1])),
          args |-> [args EXCEPT ![a] = [name |-> args[a].name, code |-> <<>>,
                                        index |-> Len(ops)]]]
    ELSE [ops |-> Append(ops, InnerRef(args[a].index)), args |-> args]

\* One round of the loop `while let Some((b, name, r)) = subst_point(line)`
\* of str_to_code, for the substitution point sp found at position a of args
\* (get_by_name); ops already holds the text before the '$'.  The result is
\* the Op pushed and the argument list after the round.
subst_arg(ops, args, a) ==
    IF args[a].code # <<>>
    THEN [ops |-> Append(ops, Inner(args[a].code[1])),
          args |-> [args EXCEPT ![a] = [name |-> args[a].name, code |-> <<>>,
                                        index |-> Len(ops)]]]
    ELSE [ops |-> Append(ops, InnerRef(Len(ops) - args[a].index)), args |-> args]

\* `if !b.is_empty() { ops.push(str_op(b)) }`: the closure str_op gives
\* Op::Lit for code!, Op::Blob for &str.
push_nonempty(ops, str_op, b) == IF b # <<>> THEN Append(ops, [tag |-> str_op, seg |-> b]) ELSE ops

\* The loop `while let Some((b, name, r)) = subst_point(line)` of str_to_code.
\* panic holds the name get_by_name found no argument for.
RECURSIVE subst_loop(_, _, _, _)
RECURSIVE subst_round(_, _, _, _, _)
RECURSIVE subst_next(_, _, _)
subst_round(p, ops1, args, str_op, a) ==
    IF a = 0 THEN [line |-> p.r, ops |-> ops1, args |-> args, panic |-> <<p.name>>]
    ELSE subst_next(p.r, subst_arg(ops1, args, a), str_op)

\* The next round, on the result oa of subst_arg.
subst_next(r, oa, str_op) == subst_loop(r, oa.ops, oa.args, str_op)

subst_found(sp, line, ops, args, str_op) ==
    IF sp = <<>> THEN [line |-> line, ops |-> ops, args |-> args, panic |-> <<>>]
    ELSE subst_round(sp[1], push_nonempty(ops, str_op, sp[1].b), args, str_op,
                     get_by_name(sp[1].name, args))

subst_loop(line, ops, args, str_op) ==
    subst_found(subst_point(line), line, ops, args, str_op)

\* `line.len() >= indent`
len_ge(l0, indent) == ~usize_lt(usize_of(str_len(l0)), indent)

\* `&line[indent..]` panics: indent is inside the line and not a char boundary.
slice_panics(l0, indent) == len_ge(l0, indent) /\ ~is_char_boundary(l0, usize_int(indent))

\* `if line.len() >= indent { line = &line[indent..] }; line = line.trim_right()`
dedent_line(l0, indent) ==
    trim_right(IF len_ge(l0, indent) THEN SubSeq(l0, 1 + char_boundary(l0, usize_int(indent))[1], Len(l0)) ELSE l0)

\* The loop over tmpl.split('\n') of str_to_code; args is an Option.
RECURSIVE lines_loop(_, _, _, _, _, _)
RECURSIVE line_substituted(_, _, _, _, _, _)
RECURSIVE line_body(_, _, _, _, _, _, _)

\* After the substitutions of a line: `if !line.is_empty() { ops.push(..) }`.
line_substituted(segs, idx, indent, s, some_args, str_op) ==
    IF s.panic # <<>> THEN [ops |-> s.ops, panic |-> s.panic]
    ELSE lines_loop(segs, idx + 1, indent, push_nonempty(s.ops, str_op, s.line),
                    IF some_args THEN <<s.args>> ELSE <<>>, str_op)

\* A line of the template, dedented and trimmed; ops1 holds its Op::Nl.
line_body(segs, idx, indent, line, ops1, args, str_op) ==
    IF line = <<>> THEN lines_loop(segs, idx + 1, indent, ops1, args, str_op)
    ELSE line_substituted(segs, idx, indent,
                          IF args # <<>>
                          THEN subst_loop(line, ops1, args[1], str_op)
                          ELSE [line |-> line, ops |-> ops1, args |-> <<>>, panic |-> <<>>],
                          args # <<>>, str_op)

lines_loop(segs, idx, indent, ops, args, str_op) ==
    IF idx >= Len(segs) THEN [ops |-> ops, panic |-> <<>>]
    ELSE IF slice_panics(segs[idx + 1], indent)
    THEN [ops |-> ops, panic |-> <<>>, slice |-> idx]
    ELSE line_body(segs, idx, indent, dedent_line(segs[idx + 1], indent),
                   IF idx # 0 THEN Append(ops, Nl) ELSE ops, args, str_op)

\* The value str_to_code returns: the Code, or the panic of get_by_name (and
\* then no Code).
str_to_code_result(r) ==
    IF r.panic # <<>>
    THEN [ok |-> FALSE, ops |-> <<>>, panic |-> r.panic,
          what |-> "No argument provided for substitution"]
    ELSE IF "slice" \in DOMAIN r
    THEN [ok |-> FALSE, ops |-> <<>>, panic |-> <<>>,
          what |-> "byte index is not a char boundary"]
    ELSE [ok |-> TRUE, ops |-> r.ops, panic |-> <<>>, what |-> ""]

\* str_to_code: sourceloc and args are Options.
str_to_code(tmpl, sourceloc, args, str_op) ==
    str_to_code_result(
        lines_loop(split_nl(tmpl), 0, min_indent(tmpl),
                   IF sourceloc # <<>> THEN <<[tag |-> "SourceLoc", loc |-> sourceloc[1]]>> ELSE <<>>,
                   args, str_op))

\* Code::build, the function the code! macro calls.
Code_build(tmpl, sourceloc, args) == str_to_code(tmpl, <<sourceloc>>, <<args>>, "Lit")

\* An argument `name: value` of a code! call: r is what value.into_code() gave.
Arg(name, r) == [name |-> name, r |-> r]

\* The code! macro: BuildArg::new converts every argument in the order of
\* the list, then Code::build runs; a conversion that panics ends the call.
code_macro(tmpl, sourceloc, args) ==
    IF \A i \in 1..Len(args) : args[i].r.ok
    THEN Code_build(tmpl, sourceloc,
                    [i \in 1..Len(args) |-> BuildArg_new(args[i].name, args[i].r.ops)])
    ELSE args[CHOOSE i \in 1..Len(args) :
                  ~args[i].r.ok /\ \A j \in 1..(i - 1) : args[j].r.ok].r

\* impl CodeArg for &str: the value str_to_code returns, or its panic.
str_into_code(s) == str_to_code(s, <<>>, <<>>, "Blob")

\* impl CodeArg for Code: the Code itself.
Code_into_code(c) == [ok |-> TRUE, ops |-> c, panic |-> <<>>, what |-> ""]

\* impl CodeArg for String: the value str_to_code returns, or the Code of
\* the one Blob.
String_into_code(s) ==
    IF FindIn(s, {"\n"}) = 0 /\ (IF s = <<>> THEN FALSE ELSE IsWhitespace(s[1]))
    THEN [ok |-> TRUE, ops |-> <<Blob(s)>>, panic |-> <<>>, what |-> ""]
    ELSE str_into_code(s)

\* The mutant of Code_push: the Code pushed goes in front of self.
Code_push_front(self, v) == v \o self

\* The mutant of Code_push: the Code pushed takes the place of self.
Code_push_replace(self, v) == v

\* Code::push: self.ops.extend(v.into_code().ops)
Code_push(self, v) == self \o v

(***************************************************************************)
(* Colours (colours.rs).                                                   *)
(***************************************************************************)

\* The table of colours.rs, in the order of the source.
COLOUR_SEQUENCE ==
  <<
    1, 2, 3, 4, 5, 6, 9, 10, 11, 12, 13, 14, 15, 34, 185, 147,
    79, 214, 216, 152, 22, 63, 56, 192, 73, 110, 148, 136, 43, 109, 221, 179,
    111, 105, 115, 211, 20, 155, 166, 172, 222, 206, 85, 231, 124, 108, 118, 65,
    114, 83, 19, 78, 187, 98, 42, 157, 21, 32, 210, 48, 53, 229, 160, 138,
    142, 219, 220, 66, 145, 154, 35, 106, 133, 75, 191, 176, 169, 230, 125, 149,
    103, 96, 190, 74, 150, 228, 174, 204, 193, 92, 31, 208, 181, 94, 197, 89,
    223, 139, 27, 202, 141, 213, 45, 194, 218, 77, 68, 126, 189, 70, 23, 121,
    93, 183, 132, 52, 87, 44, 116, 49, 225, 119, 61, 76, 135, 161, 46, 163,
    104, 140, 67, 97, 81, 64, 50, 180, 217, 178, 165, 37, 215, 99, 186, 171,
    86, 57, 137, 41, 47, 153, 201, 173, 170, 29, 88, 128, 175, 182, 226, 184,
    102, 24, 195, 36, 168, 60, 30, 38, 26, 159, 58, 51, 199, 91, 54, 71,
    101, 143, 144, 203, 120, 39, 167, 59, 158, 62, 100, 130, 82, 112, 123, 162,
    205, 117, 207, 25, 209, 156, 84, 113, 224, 200, 33, 134, 198, 188, 164, 212,
    146, 122, 80, 177, 131, 227, 72, 16, 151, 196, 90, 17, 129, 28, 55, 107,
    95, 127, 18, 40, 69
  >>

\* ansi_term::Style: bg is an Option of the Colour::Fixed number, fg is
\* "None", "Black" or "White".
Style_default == [bg |-> <<>>, fg |-> "None", bold |-> FALSE, underline |-> FALSE]
Style_bold(s) == [s EXCEPT !.bold = TRUE]

\* map_to_colour
map_to_colour(i) ==
    LET c == COLOUR_SEQUENCE[(i % Len(COLOUR_SEQUENCE)) + 1]
        row_idx == (c - 16) % 36
    IN  IF c < 16
        THEN [bg |-> <<c>>, fg |-> "Black", bold |-> FALSE, underline |-> FALSE]
        ELSE [bg |-> <<c>>, fg |-> IF row_idx < 18 THEN "White" ELSE "Black",
              bold |-> FALSE, underline |-> FALSE]

\* The mutant of fetch_add: the addition is lost.
fetch_add_lost(reg) == reg

\* The atomics of SourceLoc::style, on the registry reg: reg.colour[loc] is
\* the AtomicUsize colour of the SourceLoc loc, reg.CURRENT_COLOUR the static.
\* CURRENT_COLOUR.fetch_add(1): the counter after the call (the call returns
\* the value before it).
fetch_add(reg) == [reg EXCEPT !.CURRENT_COLOUR = reg.CURRENT_COLOUR + 1]

\* The mutant of compare_and_swap: the exchange fails although the value is 0.
compare_and_swap_weak(reg, loc, new) == reg

\* The mutant of compare_and_swap: a plain store.
compare_and_swap_store(reg, loc, new) == [reg EXCEPT !.colour[loc] = new]

\* self.colour.compare_and_swap(0, new, SeqCst)
compare_and_swap(reg, loc, new) ==
    IF reg.colour[loc] = 0 THEN [reg EXCEPT !.colour[loc] = new] ELSE reg

\* SourceLoc::style as a render calls it: the registry after the call.  The
\* call runs without interruption on the registry reg; or, for a render
\* whose calls took their steps among the steps of other threads, reg.rets
\* holds the index every call of the render loaded last, in the order of the
\* calls.
style_reg(reg, loc) ==
    IF "rets" \in DOMAIN reg THEN [reg EXCEPT !.rets = Tail(@)]
    ELSE IF reg.colour[loc] = 0
    THEN compare_and_swap(fetch_add(reg), loc, reg.CURRENT_COLOUR + 1)
    ELSE reg

\* SourceLoc::style as a render calls it: the Style it returns (the
\* recursive call loads the committed index).
style(reg, loc) ==
    IF "rets" \in DOMAIN reg THEN map_to_colour(Head(reg.rets) - 1)
    ELSE map_to_colour(style_reg(reg, loc).colour[loc] - 1)

(***************************************************************************)
(* SourceLoc (lib.rs).  A SourceLoc is the static of one code! call site;  *)
(* the model names it by a number 1..NumLocs (equality is by address).     *)
(***************************************************************************)

\* The number of code! call sites of the program.
NumLocs == 2

Locs == 1..NumLocs

\* The decimal text `{}` formats an unsigned number to.
RECURSIVE ToDecimal(_)
ToDecimal(n) ==
    LET digit == <<"0", "1", "2", "3", "4", "5", "6", "7", "8", "9">>[(n % 10) + 1]
    IN  IF n < 10 THEN <<digit>> ELSE Append(ToDecimal(n \div 10), digit)

\* The fields file!(), line!(), column!() give the static of call site loc:
\* the sites 1, 2 and 3 are those of examples/simple_struct.rs (13:9, 24:9
\* and 56:16), every further site is ten lines further down.
SourceLoc_file(loc) ==
    <<"e", "x", "a", "m", "p", "l", "e", "s", "/", "s", "i", "m", "p", "l", "e", "_", "s", "t", "r", "u", "c", "t", ".", "r", "s">>
SourceLoc_line(loc) == IF loc = 1 THEN 13 ELSE IF loc = 2 THEN 24 ELSE 26 + 10 * loc
SourceLoc_column(loc) == IF loc \in {1, 2} THEN 9 ELSE 16

\* format!("{}:{}:{}", seen.file, seen.line, seen.column)
LegendEntry(loc) ==
    SourceLoc_file(loc) \o <<":">> \o ToDecimal(SourceLoc_line(loc))
        \o <<":">> \o ToDecimal(SourceLoc_column(loc))

(***************************************************************************)
(* The renderer (display.rs).  The record st holds the fields of State,    *)
(* and with them what a render reads and writes outside State: f, the      *)
(* text written to the Formatter as a sequence of pieces [style, text]     *)
(* (write_str and write_char write a piece of the default style, which     *)
(* paints no escape codes); reg, the colour registry; panic, an Option     *)
(* holding the message once the render has panicked.                       *)
(***************************************************************************)

MAX_CONSECUTIVE_NEWLINES == 2

Piece(s, text) == [style |-> s, text |-> text]

\* The text of what was written, escape codes removed.
PlainText(f) == Concat([i \in 1..Len(f) |-> f[i].text])

\* The mutant of State_new: max_nls starts at MAX_CONSECUTIVE_NEWLINES.
State_new_capped(debug_highlight) ==
    [curr |-> <<>>, nls |-> 0, max_nls |-> MAX_CONSECUTIVE_NEWLINES, offset |-> 0,
     styles |-> IF debug_highlight
                THEN <<[list |-> <<[idx |-> 0, style |-> Style_default]>>, seen |-> {}]>>
                ELSE <<>>]

\* State::new
State_new(debug_highlight) ==
    [curr |-> <<>>, nls |-> 0, max_nls |-> 0, offset |-> 0,
     styles |-> IF debug_highlight
                THEN <<[list |-> <<[idx |-> 0, style |-> Style_default]>>, seen |-> {}]>>
                ELSE <<>>]

\* The styled write of flush: the pieces of curr between the style marks,
\* which are byte indices.  A slice curr[c..idx] with c > idx, idx > len or
\* an index inside a character panics: the result is <<>>.  c is the number
\* of characters in front of the last mark, k the char boundary of this one.
RECURSIVE paint_loop(_, _, _, _, _)
RECURSIVE paint_mark(_, _, _, _, _, _)
paint_mark(list, i, c, s, curr, k) ==
    IF k = <<>> \/ c > k[1] THEN <<>>
    ELSE LET rest == paint_loop(list, i + 1, k[1], list[i].style, curr)
         IN  IF rest = <<>> THEN <<>>
             ELSE <<<<Piece(s, SubSeq(curr, c + 1, k[1]))>> \o rest[1]>>

paint_loop(list, i, c, s, curr) ==
    IF i > Len(list) THEN <<<<Piece(s, SubSeq(curr, c + 1, Len(curr)))>>>>
    ELSE paint_mark(list, i, c, s, curr, char_boundary(curr, list[i].idx))

\* styles.drain(1..len-1); styles[1].0 = self.curr.len()
reset_styles(list, len) ==
    IF Len(list) > 1
    THEN <<list[1], [idx |-> len, style |-> list[Len(list)].style]>>
    ELSE list

\* The mutant of clamp_nls: no clamp before a closing bracket.
clamp_nls_none(st) == st.nls

\* `if self.curr.trim_left().starts_with(&['}', ')', ']'][..]) {
\*      self.nls = usize::min(self.nls, 1) }` of flush: the value of nls.
clamp_nls(st) ==
    IF starts_with(trim_left(st.curr), {"}", ")", "]"}) THEN (IF st.nls < 1 THEN st.nls ELSE 1) ELSE st.nls

\* The mutant of next_max_nls: the same cap after every line.
next_max_nls_two(curr) == MAX_CONSECUTIVE_NEWLINES

\* The value flush gives max_nls after it wrote the line curr.
next_max_nls(curr) ==
    IF ends_with(trim_right(curr), {"{", "(", "["}) THEN 1 ELSE MAX_CONSECUTIVE_NEWLINES

\* State::flush, given painted, the pieces its write of curr produces (an
\* Option: None when a slice of the styled write panics).
flush_write(st, base_offset, nonblank, painted) ==
    IF nonblank /\ painted = <<>>
    THEN [st EXCEPT !.panic = <<"slice index">>]
    ELSE [curr |-> Spaces(base_offset),
          nls |-> IF nonblank THEN 0 ELSE st.nls,
          max_nls |-> IF nonblank THEN next_max_nls(st.curr) ELSE st.max_nls,
          offset |-> base_offset,
          styles |-> IF st.styles # <<>>
                     THEN <<[list |-> reset_styles(st.styles[1].list, base_offset),
                             seen |-> st.styles[1].seen]>>
                     ELSE <<>>,
          f |-> IF nonblank
                THEN st.f
                     \o [i \in 1..clamp_nls(st) |-> Piece(Style_default, <<"\n">>)]
                     \o painted[1]
                ELSE st.f,
          reg |-> st.reg, panic |-> st.panic]

\* State::flush
flush(st, base_offset) ==
    flush_write(st, base_offset, ~AllWhitespace(st.curr),
                IF st.styles # <<>>
                THEN paint_loop(st.styles[1].list, 1, 0, Style_default, st.curr)
                ELSE <<<<Piece(Style_default, st.curr)>>>>)

\* styles.push((self.curr.len(), s)), when styling
push_style(st, s) ==
    IF st.styles # <<>>
    THEN [st EXCEPT !.styles[1].list = Append(@, [idx |-> str_len(st.curr), style |-> s])]
    ELSE st

\* The mutant of count_nl: every newline is counted.
count_nl_uncapped(st) == IF st.panic = <<>> THEN [st EXCEPT !.nls = st.nls + 1] ELSE st

\* `if self.nls < self.max_nls { self.nls += 1 }`
count_nl(st) ==
    IF st.panic = <<>> /\ st.nls < st.max_nls THEN [st EXCEPT !.nls = st.nls + 1] ELSE st

\* The mutant of run_text: offset is left as it is.
run_text_no_offset(st, seg) == [st EXCEPT !.curr = st.curr \o seg]

\* The arms Op::Lit and Op::Blob of State::run: offset grows by seg.len(),
\* the number of bytes of the segment.
run_text(st, seg) ==
    [st EXCEPT !.offset = st.offset + str_len(seg), !.curr = st.curr \o seg]

\* The mutant of run_SourceLoc: the colour is assigned in plain mode too.
run_SourceLoc_styled(st, sourceloc) ==
    IF st.styles # <<>>
    THEN [st EXCEPT !.styles[1].list =
                        Append(@, [idx |-> str_len(st.curr), style |-> style(st.reg, sourceloc)]),
                    !.styles[1].seen = @ \cup {sourceloc},
                    !.reg = style_reg(st.reg, sourceloc)]
    ELSE [st EXCEPT !.reg = style_reg(st.reg, sourceloc)]

\* The mutant of run_SourceLoc: seen holds the last SourceLoc only.
run_SourceLoc_last(st, sourceloc) ==
    IF st.styles # <<>>
    THEN [st EXCEPT !.styles[1].list =
                        Append(@, [idx |-> str_len(st.curr), style |-> style(st.reg, sourceloc)]),
                    !.styles[1].seen = {sourceloc},
                    !.reg = style_reg(st.reg, sourceloc)]
    ELSE st

\* The arm Op::SourceLoc of State::run
run_SourceLoc(st, sourceloc) ==
    IF st.styles # <<>>
    THEN [st EXCEPT !.styles[1].list =
                        Append(@, [idx |-> str_len(st.curr), style |-> style(st.reg, sourceloc)]),
                    !.styles[1].seen = @ \cup {sourceloc},
                    !.reg = style_reg(st.reg, sourceloc)]
    ELSE st

\* The style State::run restores at its end: that of the last style mark.
restore_style(st) ==
    IF st.styles # <<>> THEN st.styles[1].list[Len(st.styles[1].list)].style
    ELSE Style_default

\* The end of State::run: `styles.push((self.curr.len(), restore_style))`
run_end(st, restore) == IF st.panic # <<>> THEN st ELSE push_style(st, restore)

\* State::run: run_ops is its loop over ops from position idx on, run_op one
\* round of it.
RECURSIVE run(_, _, _)
RECURSIVE run_ops(_, _, _, _)
RECURSIVE run_op(_, _, _, _, _)

\* The mutant of run_InnerRef: the Code referred to is run at offset 0.
run_InnerRef_at_0(st, ops, idx, back) ==
    IF ~(back <= idx) THEN [st EXCEPT !.panic = <<"Invalid index">>]
    ELSE IF ops[idx - back + 1].tag = "Inner" THEN run(st, ops[idx - back + 1].ops, 0)
    ELSE [st EXCEPT !.panic = <<"Invalid type at index">>]

\* The arm Op::InnerRef of State::run
run_InnerRef(st, ops, idx, back) ==
    IF ~(back <= idx) THEN [st EXCEPT !.panic = <<"Invalid index">>]
    ELSE IF ops[idx - back + 1].tag = "Inner" THEN run(st, ops[idx - back + 1].ops, st.offset)
    ELSE [st EXCEPT !.panic = <<"Invalid type at index">>]

run_op(st, ops, idx, op, base_offset) ==
    CASE op.tag = "Nl" -> count_nl(flush(st, base_offset))
      [] op.tag \in {"Lit", "Blob"} -> run_text(st, op.seg)
      [] op.tag = "Inner" -> run(st, op.ops, st.offset)
      [] op.tag = "InnerRef" -> run_InnerRef(st, ops, idx, op.back)
      [] op.tag = "SourceLoc" -> run_SourceLoc(st, op.loc)

run_ops(st, ops, idx, base_offset) ==
    IF idx >= Len(ops) \/ st.panic # <<>> THEN st
    ELSE run_ops(run_op(st, ops, idx, ops[idx + 1], base_offset), ops, idx + 1, base_offset)

run(st, ops, base_offset) ==
    run_end(run_ops(push_style(st, [Style_bold(restore_style(st)) EXCEPT !.underline = TRUE]),
                    ops, 0, base_offset),
            restore_style(st))

\* The mutant of last_flush: the line breaks counted are written at the end.
last_flush_nls(st) ==
    IF st.panic # <<>> THEN st
    ELSE [flush(st, 0) EXCEPT !.f = @ \o [i \in 1..flush(st, 0).nls |-> Piece(Style_default, <<"\n">>)]]

\* `state.flush(f, 0)?`, the last flush of do_display
last_flush(st) == IF st.panic # <<>> THEN st ELSE flush(st, 0)

\* do_display up to its legend: State::new, the indent, run and the last
\* flush.  f is what the Formatter already holds.
do_display_body(code, f, indent, debug_highlight, reg) ==
    last_flush(run([State_new(debug_highlight) @@ [f |-> f, reg |-> reg, panic |-> <<>>]
                        EXCEPT !.curr = Spaces(indent)],
                   code, indent))

\* The legend of do_display; order is the order in which the HashSet seen
\* yields its elements.
RECURSIVE legend_loop(_, _, _)
legend_loop(st, order, i) ==
    IF i > Len(order) THEN st
    ELSE legend_loop([st EXCEPT !.f = @ \o <<Piece(Style_default, <<"\n", " ", " ", " ", " ">>),
                                             Piece(style(st.reg, order[i]), LegendEntry(order[i]))>>,
                                !.reg = style_reg(st.reg, order[i])],
                     order, i + 1)

LegendHead == <<"\n", " ", " ", "L", "E", "G", "E", "N", "D">>

\* `if let Some((_, ref seen)) = state.styles { .. }` of do_display
do_display_legend(st, order) ==
    IF st.panic # <<>> \/ st.styles = <<>> THEN st
    ELSE legend_loop([st EXCEPT !.f = Append(@, Piece(Style_bold(Style_default), LegendHead))],
                     order, 1)

\* do_display: the State at its end (f is what the Formatter holds).
do_display(code, f, indent, debug_highlight, reg, order) ==
    do_display_legend(do_display_body(code, f, indent, debug_highlight, reg), order)

\* impl fmt::Display for Code: the text to_string() returns.
to_string(code) == PlainText(do_display(code, <<>>, 0, FALSE, [colour |-> <<>>, CURRENT_COLOUR |-> 0], <<>>).f)

(***************************************************************************)
(* The generator program: a family of programs that build a Code through  *)
(* code! call sites and CodeArg conversions and print it.  Each call site  *)
(* has its own static SourceLoc: site 1 is a code! without arguments, site *)
(* 2 a code! that is given the Code built so far as x and a string as y.   *)
(* The program first builds its Code and then formats it, any number of    *)
(* times.                                                                  *)
(***************************************************************************)

\* The longest run of empty lines a template of site 1 holds.
MaxBlank == 5

\* The most Ops (nested ones counted) a Code the program builds may hold.
MaxOps == 20

\* The template of site 1, for a pair <<first line, last line>>: first line,
\* n empty lines, last line.
LeafTemplate(pair, n) == pair[1] \o <<"\n">> \o [i \in 1..n |-> "\n"] \o pair[2]

\* The templates of site 2.
\* 'f($x)'
WrapTemplate1 == <<"f", "(", "$", "x", ")">>
\* '$x, $x!'
WrapTemplate2 == <<"$", "x", ",", " ", "$", "x", "!">>
\* '\n    if ($y) {\n        $x\n    }\n    '
WrapTemplate3 == <<"\n", " ", " ", " ", " ", "i", "f", " ", "(", "$", "y", ")", " ", "{", "\n", " ", " ", " ", " ", " ", " ", " ", " ", "$", "x", "\n", " ", " ", " ", " ", "}", "\n", " ", " ", " ", " ">>
\* '{\n\n\n  $x\n\n\n}$y'
WrapTemplate4 == <<"{", "\n", "\n", "\n", " ", " ", "$", "x", "\n", "\n", "\n", "}", "$", "y">>
\* 'g [\n\n  $x\n\n\n\n  | $x'
WrapTemplate5 == <<"g", " ", "[", "\n", "\n", " ", " ", "$", "x", "\n", "\n", "\n", "\n", " ", " ", "|", " ", "$", "x">>

\* The runtime strings the program converts with into_code.
\* 'hi'
Str1 == <<"h", "i">>
\* The strings: 'hi', 'p\n  q', '\n\nr(\n\n\n\n)', ' a\n\u2003' (its second line is
\* one whitespace character of three bytes) and 'p\n\u2003q' (its second line
\* holds two characters, four bytes).
Strs ==
    {Str1,
     <<"p", "\n", " ", " ", "q">>,
     <<"\n", "\n", "r", "(", "\n", "\n", "\n", "\n", ")">>,
     <<" ", "a", "\n", EM_SPACE>>,
     <<"p", "\n", EM_SPACE, "q">>}

\* The names of the arguments of site 2, as stringify! gives them.
NameX == <<"x">>
NameY == <<"y">>

\* The argument lists the call at site 2 is written with: the Code built so
\* far as x, the string as y, or one of them left out.
ArgLists(x, y) ==
    {<<Arg(NameX, Code_into_code(x)), Arg(NameY, str_into_code(y))>>,
     <<Arg(NameX, Code_into_code(x))>>,
     <<Arg(NameY, str_into_code(y))>>}

\* The number of Ops of a Code, nested ones counted.
RECURSIVE TotalOps(_)
TotalOps(ops) ==
    IF ops = <<>> THEN 0
    ELSE 1 + (IF Head(ops).tag = "Inner" THEN TotalOps(Head(ops).ops) ELSE 0)
           + TotalOps(Tail(ops))

\* All orders in which a HashSet holding the elements of S may yield them.
RECURSIVE Orders(_)
Orders(S) ==
    IF S = {} THEN {<<>>}
    ELSE UNION {{<<e>> \o o : o \in Orders(S \ {e})} : e \in S}

Registry0 == [colour |-> [l \in Locs |-> 0], CURRENT_COLOUR |-> 0]

VARIABLES
    code,       \* the Code the program holds
    call,       \* Option: the template and the argument names of the last code! call
    panicked,   \* Option: the panic that ended the program
    out,        \* Option: what the last formatting of code wrote
    reg,        \* the colour of every SourceLoc and CURRENT_COLOUR
    pc,         \* simple_struct.rs: where the program is
    input,      \* simple_struct.rs: the Structs main is run with
    structs,    \* simple_struct.rs: the Structs the iterator of gen_struct_code still holds
    struct_code, \* simple_struct.rs: the Code from_iter collects in gen_struct_code (c, then struct_code)
    iter,       \* simple_struct.rs: the fields the iterator of from_iter still holds
    fields,     \* simple_struct.rs: the Code from_iter collects (c, then fields)
    thread      \* colours.rs: every thread's position in SourceLoc::style

vars ==
    <<code, call, panicked, out, reg, pc, input, structs, struct_code, iter, fields, thread>>

\* The variables of the program simple_struct.rs, and of the threads.
example_vars == <<pc, input, structs, struct_code, iter, fields>>

\* A panic: its message and, for get_by_name, the name it reports.
Panic(what, name) == [what |-> what, name |-> name]
NoArgument(name) == Panic("No argument provided for substitution", name)

Init ==
    /\ code = Code_new
    /\ call = <<>>
    /\ panicked = <<>>
    /\ out = <<>>
    /\ reg = Registry0
    /\ pc = "lib"
    /\ input = <<>>
    /\ structs = <<>>
    /\ struct_code = <<>>
    /\ iter = <<>>
    /\ fields = <<>>
    /\ thread = <<>>

\* let code = s.into_code(), for a &str: the program holds the Code, or has
\* panicked and holds none.
IntoCode ==
    /\ panicked = <<>> /\ out = <<>>
    /\ code = Code_new
    /\ \E s \in Strs :
           /\ code' = str_into_code(s).ops
           /\ panicked' = IF str_into_code(s).ok THEN <<>>
                          ELSE <<Panic(str_into_code(s).what, <<>>)>>
    /\ UNCHANGED <<call, out, reg, example_vars, thread>>

\* The end of the call code!(tmpl, args) that returned r: the program holds
\* the Code, or has panicked and holds none.
Built(tmpl, args, r) ==
    /\ r.ok => TotalOps(r.ops) <= MaxOps
    /\ code' = r.ops
    /\ call' = <<[tmpl |-> tmpl, names |-> [i \in 1..Len(args) |-> args[i].name]]>>
    /\ panicked' = IF r.ok THEN <<>> ELSE <<Panic(r.what, Concat(r.panic))>>
    /\ UNCHANGED <<out, reg>>

\* let code = code!(tmpl), at site 1
BuildLeaf ==
    /\ panicked = <<>> /\ out = <<>>
    /\ code = Code_new
    /\ \E pair \in
            {<<<<"a">>, <<"b">>>>,
             <<<<" ", " ", "c", " ", "{">>, <<" ", " ", "}">>>>,
             <<<<" ", " ", " ", " ", "(">>, <<" ", " ", "d">>>>,
             <<<<"e">>, <<" ", " ", "]", ";", " ">>>>},
          n \in 0..MaxBlank :
           Built(LeafTemplate(pair, n), <<>>, Code_build(LeafTemplate(pair, n), 1, <<>>))
    /\ UNCHANGED <<example_vars, thread>>

\* let code = code!(tmpl, x: code, y: s), at site 2
BuildWrap ==
    /\ panicked = <<>> /\ out = <<>>
    /\ \E tmpl \in {WrapTemplate1, WrapTemplate2, WrapTemplate3, WrapTemplate4, WrapTemplate5},
          args \in ArgLists(code, Str1) :
           Built(tmpl, args, code_macro(tmpl, 2, args))
    /\ UNCHANGED <<example_vars, thread>>

\* The end of a formatting call that left the State st: the program holds
\* what was written, followed by tail when the call returned.
Formatted(kind, st, tail) ==
    /\ out' = <<[kind |-> kind, f |-> IF st.panic = <<>> THEN st.f \o tail ELSE st.f]>>
    /\ panicked' = IF st.panic = <<>> THEN <<>> ELSE <<Panic(st.panic[1], <<>>)>>
    /\ reg' = st.reg
    /\ UNCHANGED <<code, call>>

\* format!("{}", code): impl fmt::Display for Code
FmtDisplay ==
    /\ panicked = <<>>
    /\ Formatted("Display", do_display(code, <<>>, 0, FALSE, reg, <<>>), <<>>)
    /\ UNCHANGED <<example_vars, thread>>

\* format!("{:?}", code): impl fmt::Debug for Code, not alternate
FmtDebug ==
    /\ panicked = <<>>
    /\ Formatted("Debug",
                 do_display(code, <<Piece(Style_default, <<"C", "o", "d", "e", " ", "{">>)>>,
                            0, FALSE, reg, <<>>),
                 <<Piece(Style_default, <<"}">>)>>)
    /\ UNCHANGED <<example_vars, thread>>

\* The SourceLocs the HashSet seen holds at the end of a debug render of code.
SeenBy(st) == IF st.styles = <<>> THEN {} ELSE st.styles[1].seen

\* format!("{:#?}", code): impl fmt::Debug for Code, alternate
FmtDebugAlternate ==
    /\ panicked = <<>>
    /\ \E order \in Orders(SeenBy(do_display_body(code, <<>>, 4, TRUE, reg))) :
           Formatted("DebugAlternate",
                     do_display(code,
                                <<Piece(Style_default, <<"C", "o", "d", "e", " ", "{", "\n">>)>>,
                                4, TRUE, reg, order),
                     <<Piece(Style_default, <<"\n", "}">>)>>)
    /\ UNCHANGED <<example_vars, thread>>

Next ==
    \/ IntoCode
    \/ BuildLeaf
    \/ BuildWrap
    \/ FmtDisplay
    \/ FmtDebug
    \/ FmtDebugAlternate

Spec == Init /\ [][Next]_vars

(***************************************************************************)
(* The program examples/simple_struct.rs: main calls gen_struct_code,      *)
(* which collects the Code of every Struct, each built from the Code       *)
(* gen_fields_code collects for its fields; main wraps the result in the   *)
(* include guard, prints the Code with {:#?} and then with {}.  The model  *)
(* runs main on the Structs of the source and on shorter lists.            *)
(***************************************************************************)

\* The longest list of Structs main is run with.
MaxStructs == 2

\* The fields (name, ty) of the Structs of main.
FieldA == <<<<"a">>, <<"u", "i", "n", "t", "3", "2", "_", "t">>>>
FieldB == <<<<"b">>, <<"c", "h", "a", "r", "*">>>>

\* The Structs of main.
Peaches == [name |-> <<"p", "e", "a", "c", "h", "e", "s">>, fields |-> <<FieldA, FieldB>>]
Celery == [name |-> <<"c", "e", "l", "e", "r", "y">>, fields |-> <<FieldA, FieldB>>]

\* The lists of at most n Structs: those of main, and Structs with fewer
\* fields.
RECURSIVE StructLists(_)
StructLists(n) ==
    IF n = 0 THEN {<<>>}
    ELSE StructLists(n - 1)
         \cup {Append(l, x) : l \in {m \in StructLists(n - 1) : Len(m) = n - 1},
                              x \in {Peaches, Celery,
                                     [name |-> <<"c", "e", "l", "e", "r", "y">>, fields |-> <<FieldB>>],
                                     [name |-> <<"p", "e", "a", "c", "h", "e", "s">>, fields |-> <<>>]}}

\* let inclguard = "_some_file_h"
inclguard == <<"_", "s", "o", "m", "e", "_", "f", "i", "l", "e", "_", "h">>

\* The template of gen_struct_code as the source has it, and with the
\* indentation the literal has in the source taken off.
StructTemplate ==
    <<"\n", " ", " ", " ", " ", " ", " ", " ", " ", " ", " ", " ", " ", "s", "t", "r", "u", "c", "t", " ", "$", "n", "a", "m", "e", " ", "{", "\n", " ", " ", " ", " ", " ", " ", " ", " ", " ", " ", " ", " ", " ", " ", " ", " ", "$", "f", "i", "e", "l", "d", "s", "\n", " ", " ", " ", " ", " ", " ", " ", " ", " ", " ", " ", " ", "}", ";", "\n", " ", " ", " ", " ", " ", " ", " ", " ", " ", " ", " ", " ">>
StructTemplateFlat ==
    <<"s", "t", "r", "u", "c", "t", " ", "$", "n", "a", "m", "e", " ", "{", "\n", " ", " ", " ", " ", "$", "f", "i", "e", "l", "d", "s", "\n", "}", ";", "\n">>

\* The closure of gen_fields_code: code!("$ty $name;\n", ty: ty, name: name),
\* at site 1; the value it returns, or its panic.
field_code(field) ==
    code_macro(<<"$", "t", "y", " ", "$", "n", "a", "m", "e", ";", "\n">>, 1,
               <<Arg(<<"t", "y">>, str_into_code(field[2])),
                 Arg(<<"n", "a", "m", "e">>, str_into_code(field[1]))>>)

\* The code! of the closure of gen_struct_code: code!(tmpl, name: s.name,
\* fields: fields), at site 2.
struct_code_of(tmpl, s, fields_code) ==
    code_macro(tmpl, 2,
               <<Arg(<<"n", "a", "m", "e">>, str_into_code(s.name)),
                 Arg(<<"f", "i", "e", "l", "d", "s">>, Code_into_code(fields_code))>>)

\* The code! of main: code!(tmpl, inclguard: inclguard, structs: struct_code),
\* at site 3.
file_code(guard, structs_code) ==
    LET tmpl == <<"\n", " ", " ", " ", " ", " ", " ", " ", " ", "/", "/", " ", "T", "h", "i", "s", " ", "f", "i", "l", "e", " ", "i", "s", " ", "g", "e", "n", "e", "r", "a", "t", "e", "d", "\n", "\n", " ", " ", " ", " ", " ", " ", " ", " ", "#", "i", "f", "n", "d", "e", "f", " ", "$", "i", "n", "c", "l", "g", "u", "a", "r", "d", "\n", " ", " ", " ", " ", " ", " ", " ", " ", "#", "d", "e", "f", "i", "n", "e", " ", "$", "i", "n", "c", "l", "g", "u", "a", "r", "d", "\n", "\n", " ", " ", " ", " ", " ", " ", " ", " ", "$", "s", "t", "r", "u", "c", "t", "s", "\n", "\n", " ", " ", " ", " ", " ", " ", " ", " ", "#", "e", "n", "d", "i", "f", " ", "/", "/", " ", "d", "e", "f", "i", "n", "e", "d", "(", "$", "i", "n", "c", "l", "g", "u", "a", "r", "d", ")", "\n", " ", " ", " ", " ", " ", " ", " ", " ">>
    IN
    code_macro(tmpl, 3,
               <<Arg(<<"i", "n", "c", "l", "g", "u", "a", "r", "d">>, str_into_code(guard)),
                 Arg(<<"s", "t", "r", "u", "c", "t", "s">>, Code_into_code(structs_code))>>)

\* The start of main. The code! call sites of the program are 1..3:
\* gen_fields_code (line 13), gen_struct_code (line 24) and main (line 56).
InitExample ==
    /\ code = Code_new
    /\ call = <<>>
    /\ panicked = <<>>
    /\ out = <<>>
    /\ reg = [colour |-> [l \in (1..3) |-> 0], CURRENT_COLOUR |-> 0]
    /\ pc = "gen_struct_code"
    /\ input \in StructLists(MaxStructs)
    /\ structs = input
    /\ struct_code = Code_new
    /\ iter = <<>>
    /\ fields = Code_new
    /\ thread = <<>>

\* The end of a step of the program that called something which gave r:
\* the program goes on at next, or has panicked.
Goes(r, next) ==
    /\ pc' = IF r.ok THEN next ELSE "panicked"
    /\ panicked' = IF r.ok THEN <<>> ELSE <<Panic(r.what, Concat(r.panic))>>

\* The iterator of gen_struct_code yields the next Struct s and its closure
\* calls gen_fields_code(s.fields).
GenFieldsCode ==
    /\ pc = "gen_struct_code"
    /\ structs # <<>>
    /\ iter' = Head(structs).fields
    /\ pc' = "from_iter"
    /\ UNCHANGED <<code, call, panicked, out, reg, input, structs, struct_code, fields, thread>>

\* from_iter of gen_fields_code:
\* let mut c = i.next().map(|x| x.into_code()).unwrap_or(Code::new())
FromIterFirst ==
    /\ pc = "from_iter"
    /\ IF iter = <<>>
       THEN /\ fields' = Code_new
            /\ pc' = "for"
            /\ UNCHANGED <<iter, panicked>>
       ELSE /\ fields' = field_code(Head(iter)).ops
            /\ iter' = Tail(iter)
            /\ Goes(field_code(Head(iter)), "for")
    /\ UNCHANGED <<code, call, out, reg, input, structs, struct_code, thread>>

\* from_iter of gen_fields_code: for x in i { c.push(x); }, one turn
FromIterPush ==
    /\ pc = "for"
    /\ iter # <<>>
    /\ fields' = IF field_code(Head(iter)).ok
                 THEN Code_push(fields, field_code(Head(iter)).ops) ELSE fields
    /\ iter' = Tail(iter)
    /\ Goes(field_code(Head(iter)), "for")
    /\ UNCHANGED <<code, call, out, reg, input, structs, struct_code, thread>>

\* The Struct the iterator of gen_struct_code yielded is its first.
FirstStruct == Len(structs) = Len(input)

\* gen_struct_code, once gen_fields_code returned: the closure builds the
\* Code of the Struct and from_iter takes it, as its first item
\* (x.into_code()) or with c.push(x).
GenStructCode ==
    /\ pc = "for"
    /\ iter = <<>>
    /\ struct_code' =
           IF ~struct_code_of(StructTemplate, Head(structs), fields).ok THEN struct_code
           ELSE IF FirstStruct THEN struct_code_of(StructTemplate, Head(structs), fields).ops
           ELSE Code_push(struct_code, struct_code_of(StructTemplate, Head(structs), fields).ops)
    /\ structs' = Tail(structs)
    /\ Goes(struct_code_of(StructTemplate, Head(structs), fields), "gen_struct_code")
    /\ UNCHANGED <<code, call, out, reg, input, iter, fields, thread>>

\* The iterator of gen_struct_code is at its end: from_iter returns c
\* (Code::new() when there was no Struct) and main has its struct_code.
GenStructCodeReturn ==
    /\ pc = "gen_struct_code"
    /\ structs = <<>>
    /\ struct_code' = IF input = <<>> THEN Code_new ELSE struct_code
    /\ pc' = "code"
    /\ UNCHANGED <<code, call, panicked, out, reg, input, structs, iter, fields, thread>>

\* let code = code!(.., inclguard: inclguard, structs: struct_code)
MainCode ==
    /\ pc = "code"
    /\ code' = file_code(inclguard, struct_code).ops
    /\ Goes(file_code(inclguard, struct_code), "debug")
    /\ UNCHANGED <<call, out, reg, input, structs, struct_code, iter, fields, thread>>

\* The end of a println! whose formatting of code left the State st: the
\* program holds what was written and goes on at next, or has panicked.
Printed(kind, st, tail, next) ==
    /\ Formatted(kind, st, tail)
    /\ pc' = IF st.panic = <<>> THEN next ELSE "panicked"
    /\ UNCHANGED <<input, structs, struct_code, iter, fields, thread>>

\* println!("code = {:#?}", code)
PrintDebug ==
    /\ pc = "debug"
    /\ \E order \in Orders(SeenBy(do_display_body(code, <<>>, 4, TRUE, reg))) :
           Printed("DebugAlternate",
                   do_display(code,
                              <<Piece(Style_default, <<"c", "o", "d", "e", " ", "=", " ">>),
                                Piece(Style_default, <<"C", "o", "d", "e", " ", "{", "\n">>)>>,
                              4, TRUE, reg, order),
                   <<Piece(Style_default, <<"\n", "}">>), Piece(Style_default, <<"\n">>)>>,
                   "display")

\* println!("{}", code)
PrintDisplay ==
    /\ pc = "display"
    /\ Printed("Display", do_display(code, <<>>, 0, FALSE, reg, <<>>),
               <<Piece(Style_default, <<"\n">>)>>, "done")

NextExample ==
    \/ GenFieldsCode
    \/ FromIterFirst
    \/ FromIterPush
    \/ GenStructCode
    \/ GenStructCodeReturn
    \/ MainCode
    \/ PrintDebug
    \/ PrintDisplay

SpecExample == InitExample /\ [][NextExample]_vars

(***************************************************************************)
(* Threads calling SourceLoc::style (colours.rs), one atomic operation a   *)
(* step.                                                                   *)
(***************************************************************************)

\* The threads.
NumThreads == 2
Threads == 1..NumThreads

\* A thread outside SourceLoc::style; depth counts the recursive calls of
\* style() that the call of the thread is in.
Idle == [pc |-> "idle", self |-> 0, idx |-> 0, depth |-> 0]

\* The registry when the threads start: that of a new process, or that of a
\* process which has styled SourceLoc 1 and then Len(COLOUR_SEQUENCE) - 1
\* SourceLocs that are not in Locs, one fetch_add each, so that the next
\* index is one palette length behind that of SourceLoc 1.
RegistriesBefore ==
    {Registry0,
     [colour |-> [l \in Locs |-> IF l = 1 THEN 1 ELSE 0],
      CURRENT_COLOUR |-> Len(COLOUR_SEQUENCE)]}

InitColour ==
    /\ code = Code_new
    /\ call = <<>>
    /\ panicked = <<>>
    /\ out = <<>>
    /\ reg \in RegistriesBefore
    /\ pc = "lib"
    /\ input = <<>>
    /\ structs = <<>>
    /\ struct_code = <<>>
    /\ iter = <<>>
    /\ fields = <<>>
    /\ thread = [t \in Threads |-> Idle]

\* thread t calls loc.style(), up to the load of the call:
\* let idx = self.colour.load(Ordering::SeqCst); if idx == 0
StyleCall(t) ==
    /\ thread[t].pc = "idle"
    /\ \E loc \in Locs :
           thread' = [thread EXCEPT
                          ![t].self = loc,
                          ![t].idx = reg.colour[loc],
                          ![t].pc = IF reg.colour[loc] = 0 THEN "fetch_add" ELSE "return"]
    /\ UNCHANGED <<code, call, panicked, out, reg, example_vars>>

\* The load of a recursive call:
\* let idx = self.colour.load(Ordering::SeqCst); if idx == 0; if not, the
\* recursive calls in progress return what this one returns.
StyleLoad(t) ==
    /\ thread[t].pc = "load"
    /\ thread' = [thread EXCEPT
                      ![t].idx = reg.colour[thread[t].self],
                      ![t].pc = IF reg.colour[thread[t].self] = 0
                                THEN "fetch_add" ELSE "return",
                      ![t].depth = IF reg.colour[thread[t].self] = 0 THEN @ ELSE 0]
    /\ UNCHANGED <<code, call, panicked, out, reg, example_vars>>

\* let idx = CURRENT_COLOUR.fetch_add(1, Ordering::SeqCst)
StyleFetchAdd(t) ==
    /\ thread[t].pc = "fetch_add"
    /\ thread' = [thread EXCEPT ![t].idx = reg.CURRENT_COLOUR,
                                ![t].pc = "compare_and_swap"]
    /\ reg' = fetch_add(reg)
    /\ UNCHANGED <<code, call, panicked, out, example_vars>>

\* self.colour.compare_and_swap(0, idx + 1, Ordering::SeqCst);
\* return self.style()
StyleCompareAndSwap(t) ==
    /\ thread[t].pc = "compare_and_swap"
    /\ reg' = compare_and_swap(reg, thread[t].self, thread[t].idx + 1)
    /\ thread' = [thread EXCEPT ![t].pc = "load", ![t].idx = 0, ![t].depth = @ + 1]
    /\ UNCHANGED <<code, call, panicked, out, example_vars>>

\* return map_to_colour(idx - 1): the caller has the Style
StyleReturn(t) ==
    /\ thread[t].pc = "return"
    /\ thread' = [thread EXCEPT ![t] = Idle]
    /\ UNCHANGED <<code, call, panicked, out, reg, example_vars>>

NextColour ==
    \/ \E t \in Threads : StyleCall(t)
    \/ \E t \in Threads : StyleLoad(t)
    \/ \E t \in Threads : StyleFetchAdd(t)
    \/ \E t \in Threads : StyleCompareAndSwap(t)
    \/ \E t \in Threads : StyleReturn(t)

SpecColour == InitColour /\ [][NextColour]_vars

\* A step of thread t inside style().
InStyle(t) == StyleLoad(t) \/ StyleFetchAdd(t) \/ StyleCompareAndSwap(t) \/ StyleReturn(t)

\* The threads, each scheduled again and again while it is inside style():
\* no step of style() waits for another thread, and a caller need not call.
SpecStyle == InitColour /\ [][NextColour]_vars /\ \A t \in Threads : WF_vars(InStyle(t))

(***************************************************************************)
(* The conversions of one text: into_code of the &str and of the String    *)
(* that hold it, and code! with the text as template and no arguments.     *)
(***************************************************************************)

\* The longest text.
MaxLen == 4

\* The texts of at most n characters.
RECURSIVE Texts(_)
Texts(n) ==
    IF n = 0 THEN {<<>>}
    ELSE Texts(n - 1)
         \cup {Append(s, c) : s \in {u \in Texts(n - 1) : Len(u) = n - 1}, c \in {" ", "a", "\n", "$", EM_SPACE}}

InitText ==
    /\ code = Code_new
    /\ call = <<>>
    /\ panicked = <<>>
    /\ out = <<>>
    /\ reg = Registry0
    /\ pc = "text"
    /\ input \in Texts(MaxLen)
    /\ structs = <<>>
    /\ struct_code = <<>>
    /\ iter = <<>>
    /\ fields = <<>>
    /\ thread = <<>>

\* The end of the conversion named by what, which returned r.
Converted(what, r) ==
    /\ pc' = what
    /\ code' = r.ops
    /\ panicked' = IF r.ok THEN <<>> ELSE <<Panic(r.what, Concat(r.panic))>>
    /\ UNCHANGED <<call, out, reg, input, structs, struct_code, iter, fields, thread>>

\* let code = (&input[..]).into_code()
StrIntoCode ==
    /\ pc = "text"
    /\ Converted("&str", str_into_code(input))

\* let code = String::from(input).into_code()
StringIntoCode ==
    /\ pc = "text"
    /\ Converted("String", String_into_code(input))

\* let code = code!(input), at site 1
BuildText ==
    /\ pc = "text"
    /\ Converted("code!", code_macro(input, 1, <<>>))

NextText ==
    \/ StrIntoCode
    \/ StringIntoCode
    \/ BuildText

SpecText == InitText /\ [][NextText]_vars

(***************************************************************************)
(* Threads rendering Documents at the same time.  A render works on its    *)
(* own State; what it shares with other threads are the atomics of         *)
(* SourceLoc::style, so a render takes one step for every atomic operation *)
(* of every style() call it makes (with what it does on its own State      *)
(* before), and one step to end.                                           *)
(***************************************************************************)

\* The Documents rendered: code!("f($x)", x: code!("a")) and
\* code!("$x, $x!", x: code!("a")), with code!("a") at site 1 and the other
\* calls at site 2.
Doc1 == Code_build(<<"a">>, 1, <<>>).ops
Doc2 == Code_build(WrapTemplate1, 2, <<BuildArg_new(NameX, Doc1)>>).ops
Doc3 == Code_build(WrapTemplate2, 2, <<BuildArg_new(NameX, Doc1)>>).ops

\* The SourceLocs of the style() calls State::run makes for ops in debug
\* mode, in the order of the calls.
RECURSIVE run_styles(_)
run_styles(ops) ==
    Concat([i \in 1..Len(ops) |->
               CASE ops[i].tag = "SourceLoc" -> <<ops[i].loc>>
                 [] ops[i].tag = "Inner" -> run_styles(ops[i].ops)
                 [] ops[i].tag = "InnerRef" -> run_styles(ops[i - ops[i].back].ops)
                 [] OTHER -> <<>>])

\* The elements of a sequence.
Range(s) == {s[i] : i \in 1..Len(s)}

\* A thread about to render doc with debug_highlight, whose HashSet seen
\* will yield its elements in the order order.
Rendering(doc, debug_highlight, order) ==
    [pc |-> "idle", self |-> 0, idx |-> 0, depth |-> 0,
     code |-> doc, debug_highlight |-> debug_highlight, order |-> order,
     calls |-> IF debug_highlight THEN run_styles(doc) \o order ELSE <<>>,
     rets |-> <<>>, out |-> <<>>]

\* The renders a thread can be about to make: of Doc2 plain, and of Doc2 and
\* Doc3 in debug mode, each with the two orders the HashSet seen can yield
\* its two SourceLocs in.
Renderings ==
    << Rendering(Doc2, FALSE, <<>>), Rendering(Doc2, TRUE, <<1, 2>>),
       Rendering(Doc2, TRUE, <<2, 1>>), Rendering(Doc3, TRUE, <<1, 2>>),
       Rendering(Doc3, TRUE, <<2, 1>>) >>

InitRender ==
    /\ code = Code_new
    /\ call = <<>>
    /\ panicked = <<>>
    /\ out = <<>>
    /\ reg = Registry0
    /\ pc = "lib"
    /\ input = <<>>
    /\ structs = <<>>
    /\ struct_code = <<>>
    /\ iter = <<>>
    /\ fields = <<>>
    \* the threads are alike: every choice of renders is made once, by the
    \* threads in the order of Renderings
    /\ \E r \in [Threads -> 1..Len(Renderings)] :
           /\ \A t \in Threads : t > 1 => r[t - 1] <= r[t]
           /\ thread = [t \in Threads |-> Renderings[r[t]]]

\* The render of thread t runs up to the load of its next call of style(),
\* or a call of style() makes the load of its recursive call:
\* `let idx = self.colour.load(Ordering::SeqCst); if idx == 0`, and if not the
\* call returns map_to_colour(idx - 1) to the render.
RenderLoad(t) ==
    /\ thread[t].pc \in {"idle", "load"}
    /\ thread[t].calls # <<>>
    /\ thread' = IF reg.colour[Head(thread[t].calls)] = 0
                 THEN [thread EXCEPT ![t].pc = "fetch_add",
                                     ![t].self = Head(thread[t].calls)]
                 ELSE [thread EXCEPT ![t].pc = "idle", ![t].self = 0, ![t].depth = 0,
                                     ![t].calls = Tail(@),
                                     ![t].rets = Append(@, reg.colour[Head(thread[t].calls)])]
    /\ UNCHANGED <<code, call, panicked, out, reg, example_vars>>

\* What format!("{}", code) or format!("{:#?}", code) of the thread r writes,
\* its calls of style() answered by the registry rg.
Written(r, rg) ==
    IF r.debug_highlight
    THEN do_display(r.code, <<Piece(Style_default, <<"C", "o", "d", "e", " ", "{", "\n">>)>>,
                    4, TRUE, rg, r.order).f
             \o <<Piece(Style_default, <<"\n", "}">>)>>
    ELSE do_display(r.code, <<>>, 0, FALSE, rg, <<>>).f

\* The render of thread t ends
RenderEnd(t) ==
    /\ thread[t].pc = "idle"
    /\ thread[t].calls = <<>>
    /\ thread' = [thread EXCEPT ![t].pc = "done",
                                ![t].out = <<Written(thread[t], [rets |-> thread[t].rets])>>]
    /\ UNCHANGED <<code, call, panicked, out, reg, example_vars>>

NextRender ==
    \/ \E t \in Threads : RenderLoad(t)
    \/ \E t \in Threads : StyleFetchAdd(t)
    \/ \E t \in Threads : StyleCompareAndSwap(t)
    \/ \E t \in Threads : RenderEnd(t)

SpecRender == InitRender /\ [][NextRender]_vars

(***************************************************************************)
(* A program that composes Code in every way the library offers: code!     *)
(* with the Code it holds as argument (nesting), Code::push, and from_iter *)
(* over Codes it has set aside; it formats the Code it holds at any time.  *)
(***************************************************************************)

\* The most Codes the program sets aside for from_iter.
MaxKept == 2

\* The most Ops (nested ones counted) of a Code this program holds.
MaxBuilt == 9

\* impl FromIterator for Code: `for x in i { c.push(x); }`
RECURSIVE from_iter_for(_, _)
from_iter_for(c, i) ==
    IF i = <<>> THEN c ELSE from_iter_for(Code_push(c, Head(i)), Tail(i))

\* impl FromIterator for Code
from_iter(i) ==
    IF i = <<>> THEN Code_new ELSE from_iter_for(Head(i), Tail(i))

\* The templates of the code! calls of this program: 'f($x)', '$x, $x!' and
\* '$x$x'.

InitBuild ==
    /\ code = Code_new
    /\ call = <<>>
    /\ panicked = <<>>
    /\ out = <<>>
    /\ reg = Registry0
    /\ pc = "new"
    /\ input = <<>>
    /\ structs = <<>>
    /\ struct_code = <<>>
    /\ iter = <<>>
    /\ fields = <<>>
    /\ thread = <<>>

\* The program holds the Code c after the operation op.
Holds(op, c) ==
    /\ TotalOps(c) <= MaxBuilt
    /\ code' = c
    /\ pc' = op
    /\ out' = <<>>
    /\ UNCHANGED <<call, panicked, reg, input, structs, struct_code, fields, thread>>

\* code = code!(tmpl, x: code)
Nest ==
    /\ panicked = <<>>
    /\ \E tmpl \in {WrapTemplate1, WrapTemplate2, <<"$", "x", "$", "x">>} :
           Holds("build", Code_build(tmpl, 2, <<BuildArg_new(NameX, code)>>).ops)
    /\ UNCHANGED iter

\* code.push("hi") or code.push(code.clone()): Code::push converts its
\* argument, and both conversions return.
Push ==
    /\ panicked = <<>>
    /\ \E r \in {str_into_code(Str1), Code_into_code(code)} :
           /\ r.ok
           /\ Holds("push", Code_push(code, r.ops))
    /\ UNCHANGED iter

\* items.push(code.clone())
Keep ==
    /\ panicked = <<>>
    /\ Len(iter) < MaxKept
    /\ iter' = Append(iter, code)
    /\ UNCHANGED <<code, call, panicked, out, reg, pc, input, structs, struct_code, fields, thread>>

\* code = items.into_iter().collect()
Collect ==
    /\ panicked = <<>>
    /\ Holds("from_iter", from_iter(iter))
    /\ iter' = <<>>

NextBuild ==
    \/ Nest
    \/ Push
    \/ Keep
    \/ Collect
    \/ FmtDisplay

SpecBuild == InitBuild /\ [][NextBuild]_vars

(***************************************************************************)
(* Notions the claims are stated with.                                     *)
(***************************************************************************)

\* The lines of a text that hold characters: the renderer writes no line
\* that is empty or holds only whitespace, so these are the lines written.
ContentLines(text) == SelectSeq(split_nl(text), LAMBDA l : l # <<>>)

\* The State a plain render starts from.
PlainState0 ==
    State_new(FALSE) @@ [f |-> <<>>, reg |-> Registry0, panic |-> <<>>]

\* The number of characters the current output line holds when a plain
\* render of ops reaches its element i.
ColumnBefore(ops, i) == Len(run_ops(PlainState0, SubSeq(ops, 1, i - 1), 0, 0).curr)

IsNested(op) == op.tag \in {"Inner", "InnerRef"}

\* The ops of the NestedBlock element i of ops is, or refers back to.
NestedAt(ops, i) ==
    IF ops[i].tag = "Inner" THEN ops[i].ops ELSE ops[i - ops[i].back].ops

\* The first line of the Document ops is empty: it starts with a NewlineMarker.
FirstLineEmpty(ops) ==
    \E i \in 1..Len(ops) :
        ops[i].tag = "Nl" /\ \A j \in 1..(i - 1) : ops[j].tag = "SourceLoc"

\* The last Len(own) - from + 1 lines of nested are the lines from.. of own,
\* each behind k spaces.
PaddedFrom(nested, own, k, from) ==
    /\ Len(nested) >= Len(own)
    /\ \A j \in from..Len(own) : nested[Len(nested) - Len(own) + j] = Spaces(k) \o own[j]

\* C2 at element i of ops: the lines of the nested Document after its first.
PaddedAt(ops, i) ==
    PaddedFrom(ContentLines(to_string(SubSeq(ops, 1, i))),
               ContentLines(to_string(NestedAt(ops, i))),
               ColumnBefore(ops, i),
               IF FirstLineEmpty(NestedAt(ops, i)) THEN 1 ELSE 2)

Displayed == out # <<>> /\ out[1].kind = "Display"

\* gen_struct_code has returned to main, which was run with the one Struct
\* of the claim C1: peaches, with the fields a and b.
PeachesCollected == input = <<Peaches>> /\ pc = "code"

\* "struct peaches {\n    uint32_t a;\n    char* b;\n};"
PeachesText ==
    <<"s", "t", "r", "u", "c", "t", " ", "p", "e", "a", "c", "h", "e", "s", " ", "{", "\n", " ", " ", " ", " ", "u", "i", "n", "t", "3", "2", "_", "t", " ", "a", ";", "\n", " ", " ", " ", " ", "c", "h", "a", "r", "*", " ", "b", ";", "\n", "}", ";">>

\* What main prints with {} for the one Struct peaches: the text of the
\* Struct between the lines of the include guard, and the newline of println!.
PeachesFile ==
    <<"/", "/", " ", "T", "h", "i", "s", " ", "f", "i", "l", "e", " ", "i", "s", " ", "g", "e", "n", "e", "r", "a", "t", "e", "d", "\n", "\n", "#", "i", "f", "n", "d", "e", "f", " ", "_", "s", "o", "m", "e", "_", "f", "i", "l", "e", "_", "h", "\n", "#", "d", "e", "f", "i", "n", "e", " ", "_", "s", "o", "m", "e", "_", "f", "i", "l", "e", "_", "h", "\n", "\n", "s", "t", "r", "u", "c", "t", " ", "p", "e", "a", "c", "h", "e", "s", " ", "{", "\n", " ", " ", " ", " ", "u", "i", "n", "t", "3", "2", "_", "t", " ", "a", ";", "\n", " ", " ", " ", " ", "c", "h", "a", "r", "*", " ", "b", ";", "\n", "}", ";", "\n", "\n", "#", "e", "n", "d", "i", "f", " ", "/", "/", " ", "d", "e", "f", "i", "n", "e", "d", "(", "_", "s", "o", "m", "e", "_", "f", "i", "l", "e", "_", "h", ")", "\n">>

\* C1: the template "struct $name {\n    $fields\n};\n" with name = "peaches"
\* and fields = the collected Code of "$ty $name;\n" for ("uint32_t","a") and
\* ("char*","b") renders in plain mode to exactly
\* "struct peaches {\n    uint32_t a;\n    char* b;\n};", with no newline
\* after the last line; so does the Code gen_struct_code builds with the
\* template as the source has it, and main prints that text inside the
\* include guard.
C1_StructRendered ==
    /\ PeachesCollected =>
           /\ to_string(struct_code_of(StructTemplateFlat, Peaches, fields).ops) = PeachesText
           /\ to_string(struct_code) = PeachesText
    /\ (input = <<Peaches>> /\ pc = "done") => PlainText(out[1].f) = PeachesFile

\* main has printed the file of the one Struct peaches, whose two fields
\* gen_fields_code collected.
C1_Witness ==
    /\ input = <<Peaches>> /\ pc = "done"
    /\ Displayed
    /\ panicked = <<>>
    /\ Len(fields) = 12
    /\ Len(struct_code) = 11

\* C1 as the claim has it: the text ends with a final newline.
C1_WithFinalNewline ==
    PeachesCollected =>
        to_string(struct_code_of(StructTemplateFlat, Peaches, fields).ops)
            = PeachesText \o <<"\n">>

\* C2: in a plain render, every line after the first of a Document rendered
\* as a NestedBlock or through a BackReference, at a point where the output
\* line holds k characters, is the Document's own line behind exactly k
\* spaces.  (The code pads with the number of bytes of the output line:
\* "$x, $x!" with x = "p\n\u2003q" puts 6 spaces in front of the last line,
\* behind the 4 characters "\u2003q, ".)
C2_NestedLinesPadded ==
    Displayed => \A i \in 1..Len(code) : IsNested(code[i]) => PaddedAt(code, i)

\* The nesting depth of a Document.
RECURSIVE Depth(_)
Depth(ops) ==
    IF ops = <<>> THEN 0
    ELSE LET d == IF Head(ops).tag = "Inner" THEN 1 + Depth(Head(ops).ops) ELSE 0
             r == Depth(Tail(ops))
         IN  IF d > r THEN d ELSE r

\* The Document with every BackReference replaced by a copy of the
\* NestedBlock it points at, at every depth.
RECURSIVE ExpandRefs(_)
ExpandRefs(ops) ==
    [i \in 1..Len(ops) |->
        IF ops[i].tag = "Inner" THEN Inner(ExpandRefs(ops[i].ops))
        ELSE IF ops[i].tag = "InnerRef" THEN Inner(ExpandRefs(ops[i - ops[i].back].ops))
        ELSE ops[i]]

RECURSIVE HasRef(_)
HasRef(ops) ==
    \E i \in 1..Len(ops) :
        \/ ops[i].tag = "InnerRef"
        \/ ops[i].tag = "Inner" /\ HasRef(ops[i].ops)

\* C3: a BackReference renders exactly what a copy of the NestedBlock it
\* points at renders at its position.
C3_BackReferenceAsCopy ==
    Displayed => PlainText(out[1].f) = to_string(ExpandRefs(code))

\* "$x, $x!" with x = "hi" has been rendered as "hi, hi!".
C3_Witness ==
    /\ Displayed
    /\ call # <<>> /\ call[1].tmpl = WrapTemplate2
    /\ code[2] = Inner(str_into_code(Str1).ops)
    /\ PlainText(out[1].f) = <<"h", "i", ",", " ", "h", "i", "!">>

\* The longest run of line breaks in a text.
RECURSIVE LongestBreak(_, _, _)
LongestBreak(text, i, len) ==
    IF i > Len(text) THEN len
    ELSE LET here == IF text[i] = "\n" THEN len + 1 ELSE 0
             rest == LongestBreak(text, i + 1, here)
         IN  IF here > rest THEN here ELSE rest

\* The longest run of NewlineMarkers at the top level of a Document.
RECURSIVE LongestNlRun(_, _, _)
LongestNlRun(ops, i, len) ==
    IF i > Len(ops) THEN len
    ELSE LET here == IF ops[i].tag = "Nl" THEN len + 1 ELSE 0
             rest == LongestNlRun(ops, i + 1, here)
         IN  IF here > rest THEN here ELSE rest

\* C4: however many NewlineMarkers or blank lines lie between two content
\* lines of a Document, the plain render writes at most two blank lines
\* between them.  A blank line is counted as the renderer counts it, as one
\* line break written before the next content line (nls): at most two line
\* breaks separate two content lines, so at most one line between them is
\* empty.
C4_BlankLinesCollapsed ==
    Displayed => LongestBreak(PlainText(out[1].f), 1, 0) <= MAX_CONSECUTIVE_NEWLINES

\* A Document with five empty template lines (six NewlineMarkers) between
\* two content lines has been rendered, with two line breaks between them.
C4_Witness ==
    /\ Displayed
    /\ LongestNlRun(code, 1, 0) = MaxBlank + 1
    /\ LongestBreak(PlainText(out[1].f), 1, 0) = 2

ClosingBrackets == {"}", ")", "]"}

\* C5: a content line whose first non-whitespace character is a closing
\* bracket has at most one blank line before it, counted as the renderer
\* counts it: exactly one line break separates it from the content line
\* before it, whatever that line was and however long the run of blank lines.
C5_OneBreakBeforeClosingBracket ==
    Displayed =>
        \A j \in 2..Len(split_nl(PlainText(out[1].f))) :
            starts_with(trim_left(split_nl(PlainText(out[1].f))[j]), ClosingBrackets)
                => split_nl(PlainText(out[1].f))[j - 1] # <<>>

\* A run of blank lines before a line starting with ']', after a line that
\* does not end with an opening bracket, has been rendered.
C5_Witness ==
    /\ Displayed
    /\ LongestNlRun(code, 1, 0) = MaxBlank + 1
    /\ to_string(code) = <<"e", "\n", " ", " ", "]", ";">>

\* The names of the placeholders of a template, in the order of its text:
\* every '$' with the longest run of name characters behind it.
RECURSIVE Placeholders(_)
Placeholders(tmpl) ==
    IF FindIn(tmpl, {"$"}) = 0 THEN <<>>
    ELSE LET t == SubSeq(tmpl, FindIn(tmpl, {"$"}) + 1, Len(tmpl))
             n == IF FindNotIn(t, IdentChars) = 0 THEN Len(t) ELSE FindNotIn(t, IdentChars) - 1
         IN  <<SubSeq(t, 1, n)>> \o Placeholders(SubSeq(t, n + 1, Len(t)))

\* The placeholders of a call that its argument list has no entry for.
Unbound(c) ==
    SelectSeq(Placeholders(c.tmpl), LAMBDA nm : \A k \in 1..Len(c.names) : c.names[k] # nm)

\* C6: a code! call whose template holds a placeholder the argument list has
\* no entry for panics, reporting the name of the first such placeholder, and
\* leaves no Document: nothing is returned and nothing is rendered.
C6_MissingArgumentIsFatal ==
    (call # <<>> /\ Unbound(call[1]) # <<>>) =>
        /\ panicked = <<NoArgument(Unbound(call[1])[1])>>
        /\ code = Code_new
        /\ out = <<>>

\* A call has panicked on its second placeholder, y, after its first, x, was
\* bound to a Document of several Ops.
C6_Witness ==
    /\ call # <<>> /\ call[1].tmpl = WrapTemplate4 /\ call[1].names = <<NameX>>
    /\ panicked = <<NoArgument(NameY)>>


\* The SourceLocs whose colour is assigned.
Assigned == {l \in Locs : reg.colour[l] # 0}

\* What the calls of style() return: the Style a call is about to hand to
\* its caller is the colour of the index the SourceLoc holds.
ReturnsCommitted ==
    \A t \in DOMAIN thread :
        thread[t].pc = "return" =>
            /\ thread[t].self \in Assigned
            /\ map_to_colour(thread[t].idx - 1) = map_to_colour(reg.colour[thread[t].self] - 1)

\* A step leaves every colour that is not 0 as it is.
ColourKept == \A l \in Locs : reg.colour[l] # 0 => reg'.colour[l] = reg.colour[l]

\* C7: under every interleaving of threads calling style() on the same
\* SourceLoc, its colour changes once, from 0 to an index that is not 0 and
\* stays, and every call returns the colour of that index.
C7_ColourCommittedOnce == []ReturnsCommitted /\ [][ColourKept]_vars

\* Two threads raced for the first use of SourceLoc 1: both took a value of
\* CURRENT_COLOUR, one was dropped, and both calls return.
C7_Witness ==
    /\ thread # <<>>
    /\ reg.CURRENT_COLOUR = 2
    /\ reg.colour[2] = 0
    /\ \A t \in {1, 2} : thread[t].pc = "return" /\ thread[t].self = 1

\* The SourceLocs a and b have the same display colour.
SameColour(a, b) == map_to_colour(reg.colour[a] - 1) = map_to_colour(reg.colour[b] - 1)

\* C8: two distinct SourceLocs whose colour is assigned hold different
\* indices, and their display colours differ unless the indices are a
\* multiple of Len(COLOUR_SEQUENCE) = 229 apart: then they are the same.
C8_ColoursDistinctWithinPalette ==
    \A a, b \in Assigned :
        a # b =>
            /\ reg.colour[a] # reg.colour[b]
            /\ SameColour(a, b) <=> (reg.colour[a] - reg.colour[b]) % Len(COLOUR_SEQUENCE) = 0

\* Two SourceLocs assigned after a race dropped a value: their indices are
\* two apart and their colours differ.
C8_Witness ==
    /\ thread # <<>>
    /\ Assigned = Locs
    /\ \E a, b \in Locs : reg.colour[a] - reg.colour[b] = 2 /\ ~SameColour(a, b)

\* C8 as the claim has it: two distinct SourceLocs whose colour is assigned
\* have different display colours.
C8_ColoursDistinct == \A a, b \in Assigned : a # b => ~SameColour(a, b)

\* The SourceLocs whose Op::SourceLoc occurs in a Document, at any depth.
RECURSIVE TokensOf(_)
TokensOf(ops) ==
    UNION {IF ops[i].tag = "SourceLoc" THEN {ops[i].loc}
           ELSE IF ops[i].tag = "Inner" THEN TokensOf(ops[i].ops)
           ELSE {} : i \in 1..Len(ops)}

DebugFormatted == out # <<>> /\ out[1].kind = "DebugAlternate"

\* The position in what was written of the piece that heads the legend (no
\* piece of the rendered text holds a line break and more).
LegendAt(f) == CHOOSE h \in 1..Len(f) : f[h].text = LegendHead

\* The entries of the legend: every second piece behind its head, up to the
\* "\n}" that ends the output.
LegendEntries(f) == [j \in 1..((Len(f) - 1 - LegendAt(f)) \div 2) |-> f[LegendAt(f) + 2 * j]]

\* C9: after a debug render the legend holds exactly one entry, in the
\* SourceLoc's colour, for every SourceLoc whose marker occurs in the tree of
\* the Document, however often, and no other entry.
C9_LegendComplete ==
    DebugFormatted =>
        /\ Len(LegendEntries(out[1].f)) = Cardinality(TokensOf(code))
        /\ \A l \in TokensOf(code) :
               \E j \in 1..Len(LegendEntries(out[1].f)) :
                   LegendEntries(out[1].f)[j]
                       = Piece(map_to_colour(reg.colour[l] - 1), LegendEntry(l))

\* A Document built from exactly two SourceLocs, one of them reached through
\* a NestedBlock and a BackReference and both in it several times, has been
\* rendered in debug mode; its legend has two entries.
C9_Witness ==
    /\ DebugFormatted
    /\ TokensOf(code) = {1, 2}
    /\ \E i \in 1..Len(code) : code[i].tag = "InnerRef" /\ 1 \in TokensOf(NestedAt(code, i))
    /\ \E i \in 1..Len(code) : code[i].tag = "Inner" /\ 2 \in TokensOf(code[i].ops)
    /\ Len(LegendEntries(out[1].f)) = 2

\* The text a debug render wrote, styling removed: the pieces between the
\* "Code {\n" that starts the output and the head of the legend.
DebugBody(f) == PlainText(SubSeq(f, 2, LegendAt(f) - 1))

\* A line behind the base indent of 4 the Debug impl passes to do_display.
Shifted(line) == IF line = <<>> THEN <<>> ELSE Spaces(4) \o line

\* C10: the text of a debug render, styling and legend removed, is the text
\* of the plain render, every line behind the same base indent.
C10_DebugTextIsPlainText ==
    DebugFormatted =>
        DebugBody(out[1].f)
            = Concat([j \in 1..Len(split_nl(to_string(code))) |->
                         (IF j > 1 THEN <<"\n">> ELSE <<>>)
                             \o Shifted(split_nl(to_string(code))[j])])

\* The text of every line of a Document without NestedBlocks: the texts
\* between its NewlineMarkers.
RECURSIVE LinesOf(_)
LinesOf(ops) ==
    IF ops = <<>> THEN << <<>> >>
    ELSE LET rest == LinesOf(Tail(ops))
         IN  IF Head(ops).tag = "Nl" THEN << <<>> >> \o rest
             ELSE IF Head(ops).tag \in {"Lit", "Blob"}
             THEN << Head(ops).seg \o Head(rest) >> \o Tail(rest)
             ELSE rest

\* The number of whitespace characters a line starts with.
LeadingWhitespace(l) == Len(l) - Len(trim_left(l))

\* The lines of a text that are not blank.
NonBlankLines(text) == {i \in 1..Len(split_nl(text)) : ~AllWhitespace(split_nl(text)[i])}

\* The least indent of the non-blank lines of a text that has one.
LeastIndent(text) ==
    CHOOSE n \in 0..Len(text) :
        /\ \E i \in NonBlankLines(text) : LeadingWhitespace(split_nl(text)[i]) = n
        /\ \A i \in NonBlankLines(text) : LeadingWhitespace(split_nl(text)[i]) >= n

\* A line with the n characters it starts with taken off, if it has n, and
\* the whitespace at its end.
Dedented(l, n) == trim_right(IF Len(l) >= n THEN SubSeq(l, n + 1, Len(l)) ELSE l)

\* The lines of a text, dedented by the least indent of its non-blank lines.
DedentedLines(text) ==
    [i \in 1..Len(split_nl(text)) |->
        IF NonBlankLines(text) = {} THEN <<>>
        ELSE Dedented(split_nl(text)[i], LeastIndent(text))]

\* C11: the String and the &str of the same text convert to the same
\* Document, the one str_to_code gives for the text without substitutions,
\* and so render identically.
C11_StringAsStr ==
    pc = "String" =>
        /\ (panicked = <<>>) = str_to_code(input, <<>>, <<>>, "Blob").ok
        /\ code = str_to_code(input, <<>>, <<>>, "Blob").ops
        /\ to_string(code) = to_string(str_to_code(input, <<>>, <<>>, "Blob").ops)

\* C12: for every text, str_to_code does not fail and the lines of its
\* Document are the lines of the text with the least indent of the non-blank
\* lines taken off every line that long, and the whitespace at the end.
C12_DedentCorrect ==
    (pc = "&str" \/ (pc = "code!" /\ FindIn(input, {"$"}) = 0)) =>
        /\ panicked = <<>>
        /\ LinesOf(code) = DedentedLines(input)

\* The Code of the fields fs, one after the other.
FieldsCode(fs) == Concat([i \in 1..Len(fs) |-> field_code(fs[i]).ops])

\* The Code of the Structs ss, one after the other.
StructsCode(ss) ==
    Concat([i \in 1..Len(ss) |->
                struct_code_of(StructTemplate, ss[i], FieldsCode(ss[i].fields)).ops])

\* The items the two from_iter calls have taken from their iterators: the
\* first fields of the Struct at hand, and the first Structs of the input.
FieldsTaken == SubSeq(Head(structs).fields, 1, Len(Head(structs).fields) - Len(iter))
StructsTaken == SubSeq(input, 1, Len(input) - Len(structs))

\* C13: from_iter gives the empty Code for no item, the item's Code for one
\* item, and for more the Ops of the items one after the other in the order
\* of the items, none added, dropped or moved; in gen_fields_code after
\* every turn of its loop, and in gen_struct_code.
C13_FromIterConcatenates ==
    /\ pc = "for" =>
           /\ Len(FieldsTaken) = 0 => fields = Code_new
           /\ Len(FieldsTaken) = 1 => fields = field_code(FieldsTaken[1]).ops
           /\ fields = FieldsCode(FieldsTaken)
    /\ pc \in {"gen_struct_code", "from_iter", "for", "code"} =>
           /\ Len(StructsTaken) = 0 => struct_code = Code_new
           /\ Len(StructsTaken) = 1 =>
                  struct_code = struct_code_of(StructTemplate, input[1],
                                               FieldsCode(input[1].fields)).ops
           /\ struct_code = StructsCode(StructsTaken)

\* Both from_iter calls have collected two items that differ: the fields a
\* and b, and the Structs peaches and celery.
C13_Witness ==
    /\ pc = "code"
    /\ input = <<Peaches, Celery>>
    /\ fields = field_code(FieldA).ops \o field_code(FieldB).ops
    /\ Len(struct_code) = 22
    /\ struct_code = StructsCode(<<Peaches>>) \o StructsCode(<<Celery>>)

\* C14: a plain render leaves the Document, the colour of every SourceLoc
\* and CURRENT_COLOUR as they are, and writes the text a render of the
\* Document writes whatever was rendered before.
C14_PlainRenderIsPure ==
    [][FmtDisplay => /\ code' = code
                     /\ reg' = reg
                     /\ PlainText(out'[1].f) = to_string(code)]_vars

\* A plain render, after a plain render, of a Document that holds the markers
\* of both SourceLocs, while no colour is assigned.
C14_Witness ==
    /\ Displayed
    /\ TokensOf(code) = Locs
    /\ reg = Registry0

\* The threads whose render has ended.
Rendered == {t \in DOMAIN thread : thread[t].pc = "done"}

\* C15: under every interleaving, a render writes what it writes when it
\* runs alone on the registry that holds the colours committed for the
\* SourceLocs of its Document: the same text, every SourceLoc in its
\* committed colour.  (Which index a SourceLoc commits depends on the order
\* of the first uses.)  This holds when a render ends and is kept by every
\* step that changes the registry; no other step changes what is compared.
C15_RendersDoNotInterfere ==
    [][\A t \in DOMAIN thread' :
           (thread'[t].pc = "done" /\ (thread[t].pc # "done" \/ reg' # reg))
               => thread'[t].out[1] = Written(thread'[t], reg')]_vars

\* Two debug renders of Documents with both SourceLocs have ended, and a
\* value of CURRENT_COLOUR was dropped in a race.
C15_Witness ==
    /\ Rendered = {1, 2}
    /\ \A t \in {1, 2} : thread[t].debug_highlight /\ Range(thread[t].calls) = {}
    /\ thread[1].code = Doc2
    /\ thread[2].code = Doc3
    /\ reg.CURRENT_COLOUR > 2

\* C15 as the claim has it: a render writes what it writes when no other
\* thread renders, from the start of the process.
C15_AsAlone ==
    \A t \in Rendered : thread[t].out[1] = Written(thread[t], Registry0)

\* Every InnerRef of ops, and of every Code nested in ops, refers back to an
\* Op of its own sequence, and that Op is an Inner.  (The element i here is
\* the index i - 1 of the slice.)
RECURSIVE RefsResolve(_)
RefsResolve(ops) ==
    \A i \in 1..Len(ops) :
        /\ ops[i].tag = "InnerRef" =>
               /\ ops[i].back <= i - 1
               /\ ops[i - ops[i].back].tag = "Inner"
        /\ ops[i].tag = "Inner" => RefsResolve(ops[i].ops)

\* C16: after any sequence of code! calls that nest the Code held, pushes,
\* and from_iter over Codes set aside, every InnerRef at index i with offset
\* back, in every Op sequence of every Code the program holds, has
\* back <= i and an Inner at index i - back of the same sequence; and no
\* formatting has ended in the panic "Invalid index" or "Invalid type at
\* index".
C16_BackReferencesResolve ==
    /\ RefsResolve(code)
    /\ \A k \in 1..Len(iter) : RefsResolve(iter[k])
    /\ \A p \in Range(panicked) : p.what \notin {"Invalid index", "Invalid type at index"}

\* The Code collected by from_iter was formatted; its second item was built
\* by a code! that names its argument twice, so that the InnerRef is further
\* from the start of the Code than it was from the start of the item, and the
\* argument was itself such a Code.
C16_Witness ==
    /\ Displayed
    /\ pc = "from_iter"
    /\ \E i \in 1..Len(code) :
           /\ code[i].tag = "InnerRef"
           /\ i - code[i].back > 2
           /\ \E j \in 1..Len(code[i - code[i].back].ops) :
                  code[i - code[i].back].ops[j].tag = "InnerRef"

\* The indices of the Ops of ops that are an Inner or an InnerRef, in order.
NestedIdx(ops) == SelectSeq([i \in 1..Len(ops) |-> i], LAMBDA i : IsNested(ops[i]))

\* The first placeholder of ph that has the name of the j-th.
FirstOf(ph, j) == CHOOSE k \in 1..j : ph[k] = ph[j] /\ \A h \in 1..(k - 1) : ph[h] # ph[j]

\* The Code the call at site 2 is given for the argument name: x is the
\* Code held before the call, y is the string converted.
ArgCode(name, held) == IF name = NameX THEN held ELSE str_into_code(Str1).ops

\* The Ops that ops holds for the placeholders ph, one for each in the order
\* of the text: an Inner with the Code of the argument for the first
\* placeholder of a name, and for every later one an InnerRef whose offset
\* is its own index minus the index of that Inner.
OneInnerPerArgument(ops, ph, held) ==
    /\ Len(NestedIdx(ops)) = Len(ph)
    /\ \A j \in 1..Len(ph) :
           ops[NestedIdx(ops)[j]] =
               IF FirstOf(ph, j) = j THEN Inner(ArgCode(ph[j], held))
               ELSE InnerRef(NestedIdx(ops)[j] - NestedIdx(ops)[FirstOf(ph, j)])

\* C17: a code! call whose placeholders all have an argument returns, also
\* when an argument has no placeholder, and the Code it returns holds for an
\* argument named n >= 1 times one Inner, at the first placeholder, and
\* n - 1 InnerRefs, each with offset = own index - index of the Inner; an
\* argument no placeholder names adds no Op.
C17_OneNestedBlockPerArgument ==
    [][(BuildWrap /\ Unbound(call'[1]) = <<>>) =>
           /\ panicked' = <<>>
           /\ OneInnerPerArgument(code', Placeholders(call'[1].tmpl), code)]_vars

\* The call code!("$x, $x!", x: code, y: "hi") has returned: x is named
\* twice and is a Code of several Ops, y is not named.
C17_Witness ==
    /\ call # <<>> /\ call[1].tmpl = WrapTemplate2 /\ call[1].names = <<NameX, NameY>>
    /\ panicked = <<>>
    /\ NestedIdx(code) = <<2, 4>>
    /\ Len(code[2].ops) > 1

\* A call of style() makes at most one recursive call: it is in fetch_add or
\* compare_and_swap only as the call the thread made, and the load of its
\* recursive call finds a colour that is not 0.
RetriesOnce ==
    \A t \in DOMAIN thread :
        /\ thread[t].depth <= 1
        /\ thread[t].pc \in {"fetch_add", "compare_and_swap"} => thread[t].depth = 0
        /\ thread[t].pc = "load" => reg.colour[thread[t].self] # 0

\* A thread inside style() can take its next step whatever the others do.
NeverBlocks == \A t \in DOMAIN thread : thread[t].pc # "idle" => ENABLED InStyle(t)

\* C18: every call of style() returns, whatever the interleaving, if its
\* thread keeps being scheduled; it takes one value of CURRENT_COLOUR and
\* makes one compare_and_swap at most, its one recursive call loads a colour
\* that is not 0 and returns, and no step of it waits for another thread.
C18_StyleTerminates ==
    /\ [](RetriesOnce /\ NeverBlocks)
    /\ \A t \in Threads : (thread[t].pc # "idle") ~> (thread[t].pc = "idle")

\* Both threads are about to load in the recursive call for the same
\* SourceLoc: each took a value of CURRENT_COLOUR, and the compare_and_swap
\* of one of them found the colour of the other.
C18_Witness ==
    /\ thread # <<>>
    /\ reg.CURRENT_COLOUR = 2
    /\ \A t \in {1, 2} : thread[t].pc = "load" /\ thread[t].self = 1 /\ thread[t].depth = 1

OpeningBrackets == {"{", "(", "["}

\* The line breaks the renderer may write before the content line that
\* follows the content line l.
CapAfter(l) == IF ends_with(trim_right(l), OpeningBrackets) THEN 1 ELSE 2

\* The content line before the line j of ls.
ContentBefore(ls, j) == CHOOSE p \in 1..(j - 1) : ls[p] # <<>> /\ \A q \in (p + 1)..(j - 1) : ls[q] = <<>>

\* C19: the cap on the blank lines before a content line is set by the
\* content line written before it, whatever blank lines were flushed in
\* between: 1 after a line whose last non-whitespace character is an opening
\* bracket, 2 after any other.  Blank lines are counted as the renderer
\* counts them, as line breaks written before the line (nls): one line break
\* and no empty line after an opening bracket, at most two line breaks and
\* one empty line otherwise.
C19_CapSetByLineBefore ==
    Displayed =>
        \A j \in 2..Len(split_nl(PlainText(out[1].f))) :
            split_nl(PlainText(out[1].f))[j] # <<>> =>
                j - ContentBefore(split_nl(PlainText(out[1].f)), j)
                    <= CapAfter(split_nl(PlainText(out[1].f))[ContentBefore(split_nl(PlainText(out[1].f)), j)])

\* 'g [\n\n  $x\n\n\n\n  | $x' has been rendered: one line break after the
\* line "g [" although two NewlineMarkers follow it, and two line breaks
\* before the line of "|", after a line that ends with no opening bracket.
C19_Witness ==
    /\ Displayed
    /\ call # <<>> /\ call[1].tmpl = WrapTemplate5
    /\ split_nl(PlainText(out[1].f))[1] = <<"g", " ", "[">>
    /\ split_nl(PlainText(out[1].f))[2] # <<>>
    /\ ~starts_with(trim_left(split_nl(PlainText(out[1].f))[2]), ClosingBrackets)
    /\ \E j \in 3..Len(split_nl(PlainText(out[1].f))) :
           /\ split_nl(PlainText(out[1].f))[j - 1] = <<>>
           /\ starts_with(trim_left(split_nl(PlainText(out[1].f))[j]), {"|"})

\* C20: the plain render of a Document does not begin with a line break,
\* however many NewlineMarkers come before its first content.
C20_NoLeadingNewline ==
    Displayed => (PlainText(out[1].f) = <<>> \/ PlainText(out[1].f)[1] # "\n")

\* A Document whose first two Ops are NewlineMarkers has been rendered to a
\* text that is not empty.
C20_Witness ==
    /\ Displayed
    /\ Len(code) > 2 /\ code[1].tag = "Nl" /\ code[2].tag = "Nl"
    /\ PlainText(out[1].f) # <<>>

\* C21: the plain render of a Document is empty or ends with a line that
\* holds a character that is not whitespace, and every line of it before
\* that is such a line or empty: a line break is written only in front of
\* a non-blank line, the text never ends with one, and NewlineMarkers after
\* the last non-blank line write nothing.
C21_NoTrailingNewline ==
    Displayed =>
        \/ PlainText(out[1].f) = <<>>
        \/ /\ PlainText(out[1].f)[Len(PlainText(out[1].f))] # "\n"
           /\ ~AllWhitespace(split_nl(PlainText(out[1].f))[Len(split_nl(PlainText(out[1].f)))])
           /\ \A j \in 1..Len(split_nl(PlainText(out[1].f))) :
                  split_nl(PlainText(out[1].f))[j] = <<>>
                      \/ ~AllWhitespace(split_nl(PlainText(out[1].f))[j])

\* A Document of several lines whose last Op is a NewlineMarker has been
\* rendered.
C21_Witness ==
    /\ Displayed
    /\ code # <<>> /\ code[Len(code)].tag = "Nl"
    /\ Len(ContentLines(PlainText(out[1].f))) >= 2

\* The State of a render that started to run ops in the State st at
\* base_offset and has processed the first k Ops.
After(st, ops, k, base_offset) == run_ops(st, SubSeq(ops, 1, k), 0, base_offset)

\* offset is the length of curr in the State s.
OffsetIsColumn(s) == s.offset = str_len(s.curr)

\* Before and after every Op of the run of ops from the State st at
\* base_offset, and of the runs nested in it, offset is the length of curr,
\* and after every Op::Nl (a flush) both are the base_offset of the run.
RECURSIVE OffsetTracked(_, _, _)
OffsetTracked(st, ops, base_offset) ==
    \A k \in 0..Len(ops) :
        /\ OffsetIsColumn(After(st, ops, k, base_offset))
        /\ (k > 0 /\ ops[k].tag = "Nl") =>
               /\ After(st, ops, k, base_offset).offset = base_offset
               /\ After(st, ops, k, base_offset).curr = Spaces(base_offset)
        /\ (k < Len(ops) /\ IsNested(ops[k + 1])) =>
               OffsetTracked(After(st, ops, k, base_offset), NestedAt(ops, k + 1),
                             After(st, ops, k, base_offset).offset)

\* C22: in the plain render of the Document the program formatted, before
\* and after every Op at every nesting depth, offset equals the length of
\* curr; after every flush both equal the base_offset of the run, and both
\* are 0 after the last flush of do_display.
C22_OffsetIsLineLength ==
    Displayed =>
        /\ OffsetTracked(PlainState0, code, 0)
        /\ do_display_body(code, <<>>, 0, FALSE, reg).offset = 0
        /\ do_display_body(code, <<>>, 0, FALSE, reg).curr = <<>>

\* A Document has been rendered that holds, nested behind text of its line,
\* a Document of several lines that itself holds a nested one.
C22_Witness ==
    /\ Displayed
    /\ \E i \in 1..Len(code) :
           /\ code[i].tag = "Inner"
           /\ ColumnBefore(code, i) > 0
           /\ Depth(code[i].ops) >= 1
           /\ \E j \in 1..Len(code[i].ops) : code[i].ops[j].tag = "Nl"

====
